---- MODULE Spec2Model ----
(***************************************************************************)
(* AguaSur: household water tracking.  Model of the domain entities        *)
(* (Cisterna, Llenado, Familia, Reporte), of the MongoDB repositories the  *)
(* use cases talk to, and of the use cases themselves.                     *)
(*                                                                         *)
(* A collection is a sequence of documents; a document's _id is its        *)
(* position in the sequence (no use case deletes).  Python strings that    *)
(* the code trims are sequences of characters, so that str.strip() is      *)
(* computed.  GPS coordinates and the timestamps other than a report's    *)
(* resolution date are carried by no rule modelled here and are left out   *)
(* of the documents.                                                       *)
(***************************************************************************)
EXTENDS Integers, Sequences, FiniteSets, TLC

VARIABLES
    cisterna,      \* SpecCisterna: one in-memory Cisterna entity (or None)
    ult_op,        \* the last call on the in-memory entity and how it ended
    familias,      \* collection 'familias'
    cisternas,     \* collection 'cisternas'
    llenados,      \* collection 'llenados'
    reportes,      \* collection 'reportes'
    pcL,           \* RegistrarLlenado.ejecutar: position of each invocation
    locL,          \* RegistrarLlenado.ejecutar: arguments and locals
    pcF,           \* RegistrarFamilia.ejecutar: position of each invocation
    locF,          \* RegistrarFamilia.ejecutar: arguments and locals
    invR,          \* CrearReporte.ejecutar: the invocation in flight, or None
    reporte,       \* SpecReporteEntidad: one in-memory Reporte entity
    reloj,         \* SpecReporteEntidad: the clock datetime.now() reads
    invD,          \* ObtenerDashboard.ejecutar: the last invocation, or None
    invC           \* RegistrarCisterna.ejecutar: the invocation in flight, or None

vars == <<cisterna, ult_op, familias, cisternas, llenados, reportes,
          pcL, locL, pcF, locF, invR, reporte, reloj, invD, invC>>

----------------------------------------------------------------------------
(* Bounds of the model *)

MaxCap == 3          \* largest tank capacity drawn
MaxLlenados == 2     \* RegistrarLlenado invocations per behaviour
MaxFamilias == 2     \* RegistrarFamilia invocations per behaviour
MaxReportes == 1     \* CrearReporte invocations that may store a report

None == [none |-> TRUE]

\* concurrent invocations of a use case (threads of the hosting service)
Procs == {1, 2}

\* Python: no exception raised
SinError == [exc |-> "", msg |-> ""]
\* raise ValueError(msg): every domain and use-case failure in the code
ValueError(m) == [exc |-> "ValueError", msg |-> m]
\* a pymongo failure of the repository call m (never a ValueError)
PyMongoError(m) == [exc |-> "PyMongoError", msg |-> m]

----------------------------------------------------------------------------
(* str.strip() on a sequence of characters *)

RECURSIVE LStrip(_)
LStrip(s) == IF s # <<>> /\ Head(s) = " " THEN LStrip(Tail(s)) ELSE s

RECURSIVE RStrip(_)
RStrip(s) ==
    IF s # <<>> /\ s[Len(s)] = " " THEN RStrip(SubSeq(s, 1, Len(s) - 1)) ELSE s

Strip(s) == RStrip(LStrip(s))

\* `not s or not s.strip()`
Vacio(s) == s = <<>> \/ Strip(s) = <<>>

----------------------------------------------------------------------------
(* Cisterna entity: src/domain/entities/cisterna.py *)

TipoCisterna == {"familiar", "comunitaria", "escolar", "centro_salud"}
EstadoCisterna == {"operativa", "dañada", "en_mantenimiento", "inactiva"}

\* Cisterna.__post_init__: the message of the ValueError raised, "" if none
CisternaPostInit(ubicacion, capacidad_total, nivel_actual) ==
    IF Vacio(ubicacion) THEN "ubicacion_vacia"
    ELSE IF capacidad_total <= 0 THEN "capacidad_no_positiva"
    ELSE IF nivel_actual < 0 THEN "nivel_negativo"
    ELSE IF nivel_actual > capacidad_total THEN "nivel_mayor_capacidad"
    ELSE ""

\* The entity a successful construction yields
NuevaEntidad(ubicacion, tipo, capacidad_total, nivel_actual, familia_id, estado, id) ==
    [ubicacion |-> Strip(ubicacion), tipo |-> tipo,
     capacidad_total |-> capacidad_total, nivel_actual |-> nivel_actual,
     familia_id |-> familia_id, estado |-> estado, id |-> id]

\* mutants of NivelTrasLlenar
NivelTrasLlenarSinTope(nivel_actual, capacidad_total, litros) ==
    nivel_actual + litros
NivelTrasLlenarTopeErrado(nivel_actual, capacidad_total, litros) ==
    IF nivel_actual + litros >= capacidad_total
    THEN capacidad_total - 1 ELSE nivel_actual + litros

\* Cisterna.llenar, lines 157-162: the level after a fill of litros > 0
NivelTrasLlenar(nivel_actual, capacidad_total, litros) ==
    IF nivel_actual + litros > capacidad_total
    THEN capacidad_total ELSE nivel_actual + litros

\* mutant of Llenar: a full tank cannot be filled
LlenarRechazaLlena(c, litros) ==
    IF litros <= 0
    THEN [error |-> "cantidad_no_positiva", c |-> c]
    ELSE IF c.nivel_actual = c.capacidad_total
    THEN [error |-> "cisterna_llena", c |-> c]
    ELSE [error |-> "",
          c |-> [c EXCEPT !.nivel_actual =
                     NivelTrasLlenar(c.nivel_actual, c.capacidad_total, litros)]]

\* Cisterna.llenar: the error raised ("" if none) and the entity afterwards
Llenar(c, litros) ==
    IF litros <= 0
    THEN [error |-> "cantidad_no_positiva", c |-> c]
    ELSE [error |-> "",
          c |-> [c EXCEPT !.nivel_actual =
                     NivelTrasLlenar(c.nivel_actual, c.capacidad_total, litros)]]

\* mutant of Consumir: the insufficient-water check is missing
ConsumirSinChequeo(c, litros) ==
    IF litros <= 0
    THEN [error |-> "cantidad_no_positiva", c |-> c]
    ELSE [error |-> "", c |-> [c EXCEPT !.nivel_actual = c.nivel_actual - litros]]

\* Cisterna.consumir
Consumir(c, litros) ==
    IF litros <= 0
    THEN [error |-> "cantidad_no_positiva", c |-> c]
    ELSE IF litros > c.nivel_actual
    THEN [error |-> "agua_insuficiente", c |-> c]
    ELSE [error |-> "", c |-> [c EXCEPT !.nivel_actual = c.nivel_actual - litros]]

\* Cisterna.actualizar_nivel
ActualizarNivel(c, nuevo_nivel) ==
    IF nuevo_nivel < 0
    THEN [error |-> "nivel_negativo", c |-> c]
    ELSE IF nuevo_nivel > c.capacidad_total
    THEN [error |-> "nivel_mayor_capacidad", c |-> c]
    ELSE [error |-> "", c |-> [c EXCEPT !.nivel_actual = nuevo_nivel]]

----------------------------------------------------------------------------
(* SpecCisterna: one Cisterna entity under arbitrary calls *)

UbicacionArgs == {<<>>, <<" ">>, <<" ", "u">>}
CapacidadArgs == -1 .. MaxCap
NivelArgs == -1 .. MaxCap + 1
LitrosArgs == -1 .. MaxCap + 1

NoOp == [op |-> "", arg |-> 0, antes |-> 0, error |-> ""]

\* the variables of the Reporte entity, of ObtenerDashboard and of
\* RegistrarCisterna, where none of them runs
InitSinUso ==
    /\ reporte = None
    /\ reloj = 0
    /\ invD = None
    /\ invC = None

InitOtros ==
    /\ familias = <<>>
    /\ cisternas = <<>>
    /\ llenados = <<>>
    /\ reportes = <<>>
    /\ pcL = [p \in Procs |-> "idle"]
    /\ locL = [p \in Procs |-> None]
    /\ pcF = [p \in Procs |-> "idle"]
    /\ locF = [p \in Procs |-> None]
    /\ invR = None
    /\ InitSinUso

InitCisterna ==
    /\ cisterna = None
    /\ ult_op = NoOp
    /\ InitOtros

otrosC == <<familias, cisternas, llenados, reportes, pcL, locL, pcF, locF,
            invR, reporte, reloj, invD, invC>>

\* Cisterna(ubicacion=..., tipo=..., capacidad_total=..., nivel_actual=...)
Construir(ubicacion, capacidad_total, nivel_actual) ==
    /\ cisterna = None
    /\ LET e == CisternaPostInit(ubicacion, capacidad_total, nivel_actual) IN
       /\ cisterna' = IF e = ""
                      THEN NuevaEntidad(ubicacion, "comunitaria", capacidad_total,
                                        nivel_actual, 0, "operativa", 0)
                      ELSE None
       /\ ult_op' = [op |-> "construir", arg |-> capacidad_total,
                     antes |-> nivel_actual, error |-> e]
    /\ UNCHANGED otrosC

LlamarLlenar(litros) ==
    /\ cisterna # None
    /\ LET r == Llenar(cisterna, litros) IN
       /\ cisterna' = r.c
       /\ ult_op' = [op |-> "llenar", arg |-> litros,
                     antes |-> cisterna.nivel_actual, error |-> r.error]
    /\ UNCHANGED otrosC

LlamarConsumir(litros) ==
    /\ cisterna # None
    /\ LET r == Consumir(cisterna, litros) IN
       /\ cisterna' = r.c
       /\ ult_op' = [op |-> "consumir", arg |-> litros,
                     antes |-> cisterna.nivel_actual, error |-> r.error]
    /\ UNCHANGED otrosC

LlamarActualizarNivel(nuevo_nivel) ==
    /\ cisterna # None
    /\ LET r == ActualizarNivel(cisterna, nuevo_nivel) IN
       /\ cisterna' = r.c
       /\ ult_op' = [op |-> "actualizar_nivel", arg |-> nuevo_nivel,
                     antes |-> cisterna.nivel_actual, error |-> r.error]
    /\ UNCHANGED otrosC

NextCisterna ==
    \/ \E u \in UbicacionArgs, cap \in CapacidadArgs, n \in NivelArgs :
           Construir(u, cap, n)
    \/ \E x \in LitrosArgs : LlamarLlenar(x)
    \/ \E x \in LitrosArgs : LlamarConsumir(x)
    \/ \E x \in NivelArgs : LlamarActualizarNivel(x)

SpecCisterna == InitCisterna /\ [][NextCisterna]_vars

----------------------------------------------------------------------------
(* Claims on the Cisterna entity *)

\* C1: every constructed tank satisfies 0 <= nivel_actual <= capacidad_total
\* after any sequence of llenar, consumir and actualizar_nivel calls,
\* successful or failed.
C1_NivelEnRango ==
    cisterna # None =>
        /\ 0 <= cisterna.nivel_actual
        /\ cisterna.nivel_actual <= cisterna.capacidad_total

\* a llenar that would overflow has run and clamped, on a non-trivial tank
C1_Witness ==
    /\ cisterna # None
    /\ ult_op.op = "llenar"
    /\ ult_op.error = ""
    /\ ult_op.antes + ult_op.arg > cisterna.capacidad_total
    /\ ult_op.antes > 0

C3_RechazoSinCambio ==
    cisterna # None =>
        /\ (ult_op.op = "consumir" /\ (ult_op.arg <= 0 \/ ult_op.arg > ult_op.antes))
               => (ult_op.error # "" /\ cisterna.nivel_actual = ult_op.antes)
        /\ (ult_op.op = "llenar" /\ ult_op.arg <= 0)
               => (ult_op.error # "" /\ cisterna.nivel_actual = ult_op.antes)
        /\ (ult_op.op = "consumir" /\ 0 < ult_op.arg /\ ult_op.arg <= ult_op.antes)
               => (ult_op.error = "" /\ cisterna.nivel_actual = ult_op.antes - ult_op.arg)

\* a consumir asking for more than the (non-zero) level has been rejected
C3_Witness ==
    /\ cisterna # None
    /\ ult_op.op = "consumir"
    /\ ult_op.arg > ult_op.antes
    /\ ult_op.antes > 0
    /\ ult_op.error = "agua_insuficiente"

----------------------------------------------------------------------------
(* Llenado entity: src/domain/entities/llenado.py *)

\* mutant of LlenadoPostInit: the negative-cost check is missing
LlenadoPostInitSinCosto(litros_suministrados, costo, proveedor, nivel_anterior, nivel_posterior) ==
    IF litros_suministrados <= 0 THEN "litros_no_positivos"
    ELSE IF Vacio(proveedor) THEN "proveedor_vacio"
    ELSE IF nivel_anterior < 0 THEN "nivel_anterior_negativo"
    ELSE IF nivel_posterior < nivel_anterior THEN "nivel_posterior_menor"
    ELSE ""

\* Llenado.__post_init__ (cisterna_id is a well-formed id here): the message
\* of the ValueError raised, "" if none
LlenadoPostInit(litros_suministrados, costo, proveedor, nivel_anterior, nivel_posterior) ==
    IF litros_suministrados <= 0 THEN "litros_no_positivos"
    ELSE IF costo < 0 THEN "costo_negativo"
    ELSE IF Vacio(proveedor) THEN "proveedor_vacio"
    ELSE IF nivel_anterior < 0 THEN "nivel_anterior_negativo"
    ELSE IF nivel_posterior < nivel_anterior THEN "nivel_posterior_menor"
    ELSE ""

----------------------------------------------------------------------------
(* MongoDB repositories: src/infrastructure/repositories *)

\* mutant of InsertOne: the newest stored document is overwritten
InsertOneSobreUltimo(coleccion, doc) ==
    IF coleccion = <<>> THEN <<doc>>
    ELSE [coleccion EXCEPT ![Len(coleccion)] = doc]

\* collection.insert_one(doc)
InsertOne(coleccion, doc) == Append(coleccion, doc)

\* collection.find_one({'_id': ObjectId(id)}): the document, or None
FindOne(coleccion, id) ==
    IF id \in 1 .. Len(coleccion) THEN coleccion[id] ELSE None

\* collection.update_one({'_id': id}, {'$set': doc}): every field of the
\* document is overwritten; no document matched, nothing written
UpdateOne(coleccion, id, doc) ==
    IF id \in 1 .. Len(coleccion) THEN [coleccion EXCEPT ![id] = doc]
    ELSE coleccion

\* Cisterna.to_dict without '_id'
CisternaDoc(c) ==
    [ubicacion |-> c.ubicacion, tipo |-> c.tipo,
     capacidad_total |-> c.capacidad_total, nivel_actual |-> c.nivel_actual,
     familia_id |-> c.familia_id, estado |-> c.estado]

\* Cisterna.from_dict(doc) for the document stored under id
CisternaDesdeDoc(doc, id) ==
    NuevaEntidad(doc.ubicacion, doc.tipo, doc.capacidad_total, doc.nivel_actual,
                 doc.familia_id, doc.estado, id)

----------------------------------------------------------------------------
(* RegistrarLlenado.ejecutar: src/application/use_cases/registrar_llenado.py *)

ErrCisternaNoEncontrada == ValueError("cisterna_no_encontrada")
ErrCisternaNoOperativa == ValueError("cisterna_no_operativa")

\* mutant of EstaOperativa: only an inactive tank is turned away
EstaOperativaLaxa(c) == c.estado # "inactiva"

\* line 65: cisterna.estado.value == "operativa"
EstaOperativa(c) == c.estado = "operativa"

\* mutant of NivelAnterior: the level is read after the fill
NivelAnteriorTardio(c_antes, c_despues) == c_despues.nivel_actual

\* line 71: nivel_anterior = cisterna.nivel_actual, read before llenar
NivelAnterior(c_antes, c_despues) == c_antes.nivel_actual

\* mutant of NivelPosterior: the level is computed, not observed
NivelPosteriorCalculado(c_despues, nivel_anterior, litros) ==
    nivel_anterior + litros

\* line 75: nivel_posterior = cisterna.nivel_actual, read after llenar
NivelPosterior(c_despues, nivel_anterior, litros) == c_despues.nivel_actual

CisternaIdArgs == {1, 2}
LitrosLlenadoArgs == 0 .. MaxCap
CostoArgs == {-1, 2}
ProveedorArgs == {<<>>, <<" ">>, <<"p", " ">>}

\* invocations in flight
EnCursoL == {p \in Procs : pcL[p] # "idle"}

otrosL == <<cisterna, ult_op, familias, reportes, pcF, locF, invR,
            reporte, reloj, invD, invC>>

\* ejecutar(cisterna_id, litros_suministrados, costo, proveedor) is called
LlenadoIniciar(p, cisterna_id, litros, costo, proveedor) ==
    /\ pcL[p] = "idle"
    /\ Len(llenados) + Cardinality(EnCursoL) < MaxLlenados
    /\ pcL' = [pcL EXCEPT ![p] = "obtener"]
    /\ locL' = [locL EXCEPT ![p] =
                   [cisterna_id |-> cisterna_id, litros |-> litros,
                    costo |-> costo, proveedor |-> proveedor,
                    cisterna |-> None, llenado |-> None, res |-> SinError,
                    cisternas0 |-> cisternas, llenados0 |-> llenados]]
    /\ UNCHANGED <<cisternas, llenados>>
    /\ UNCHANGED otrosL

\* the invocation ends raising r
LlenadoFalla(p, r) ==
    /\ pcL' = [pcL EXCEPT ![p] = "done"]
    /\ locL' = [locL EXCEPT ![p].res = r]
    /\ UNCHANGED <<cisternas, llenados>>

\* lines 59-86: fetch the tank, check it, fill it in memory, build the record
LlenadoObtener(p) ==
    /\ pcL[p] = "obtener"
    /\ UNCHANGED otrosL
    /\ \/ LlenadoFalla(p, PyMongoError("cisterna_repo.obtener_por_id"))
       \/ LET a == locL[p]
              doc == FindOne(cisternas, a.cisterna_id)
          IN
          IF doc = None THEN LlenadoFalla(p, ErrCisternaNoEncontrada)
          ELSE IF CisternaPostInit(doc.ubicacion, doc.capacidad_total,
                                   doc.nivel_actual) # ""
          THEN LlenadoFalla(p, ValueError(CisternaPostInit(doc.ubicacion,
                                   doc.capacidad_total, doc.nivel_actual)))
          ELSE LET c == CisternaDesdeDoc(doc, a.cisterna_id) IN
          IF ~EstaOperativa(c) THEN LlenadoFalla(p, ErrCisternaNoOperativa)
          ELSE LET r == Llenar(c, a.litros) IN
          IF r.error # "" THEN LlenadoFalla(p, ValueError(r.error))
          ELSE LET nivel_anterior == NivelAnterior(c, r.c)
                   nivel_posterior == NivelPosterior(r.c, nivel_anterior, a.litros)
                   e == LlenadoPostInit(a.litros, a.costo, a.proveedor,
                                        nivel_anterior, nivel_posterior)
               IN
          IF e # "" THEN LlenadoFalla(p, ValueError(e))
          ELSE /\ pcL' = [pcL EXCEPT ![p] = "guardar"]
               /\ locL' = [locL EXCEPT
                     ![p].cisterna = r.c,
                     ![p].llenado =
                         [cisterna_id |-> a.cisterna_id,
                          litros_suministrados |-> a.litros,
                          costo |-> a.costo,
                          proveedor |-> Strip(a.proveedor),
                          nivel_anterior |-> nivel_anterior,
                          nivel_posterior |-> nivel_posterior]]
               /\ UNCHANGED <<cisternas, llenados>>

\* lines 88-89: llenado_repo.guardar(llenado)
LlenadoGuardar(p) ==
    /\ pcL[p] = "guardar"
    /\ UNCHANGED otrosL
    /\ \/ LlenadoFalla(p, PyMongoError("llenado_repo.guardar"))
       \/ /\ llenados' = InsertOne(llenados, locL[p].llenado)
          /\ pcL' = [pcL EXCEPT ![p] = "actualizar"]
          /\ UNCHANGED <<cisternas, locL>>

\* lines 91-94: cisterna_repo.actualizar(cisterna); return
LlenadoActualizar(p) ==
    /\ pcL[p] = "actualizar"
    /\ UNCHANGED otrosL
    /\ \/ LlenadoFalla(p, PyMongoError("cisterna_repo.actualizar"))
       \/ /\ cisternas' = UpdateOne(cisternas, locL[p].cisterna.id,
                                    CisternaDoc(locL[p].cisterna))
          /\ pcL' = [pcL EXCEPT ![p] = "done"]
          /\ UNCHANGED <<llenados, locL>>

\* the caller has the result or the exception; the invocation's frame is gone
LlenadoRetornar(p) ==
    /\ pcL[p] = "done"
    /\ pcL' = [pcL EXCEPT ![p] = "idle"]
    /\ locL' = [locL EXCEPT ![p] = None]
    /\ UNCHANGED <<cisternas, llenados>>
    /\ UNCHANGED otrosL

LlenadoPaso(p) ==
    \/ \E id \in CisternaIdArgs, x \in LitrosLlenadoArgs,
          costo \in CostoArgs, prov \in ProveedorArgs :
           LlenadoIniciar(p, id, x, costo, prov)
    \/ LlenadoObtener(p)
    \/ LlenadoGuardar(p)
    \/ LlenadoActualizar(p)
    \/ LlenadoRetornar(p)

\* a stored tank: whatever RegistrarCisterna and later writes can have left
CisternasValidas ==
    { t \in [ubicacion : {<<"u">>}, tipo : {"comunitaria"},
              capacidad_total : 1 .. MaxCap, nivel_actual : 0 .. MaxCap,
              familia_id : {0}, estado : EstadoCisterna] :
          CisternaPostInit(t.ubicacion, t.capacidad_total, t.nivel_actual) = "" }

InitLlenado ==
    /\ \E d \in CisternasValidas : cisternas = <<d>>
    /\ llenados = <<>>
    /\ pcL = [p \in Procs |-> "idle"]
    /\ locL = [p \in Procs |-> None]
    /\ cisterna = None
    /\ ult_op = NoOp
    /\ familias = <<>>
    /\ reportes = <<>>
    /\ pcF = [p \in Procs |-> "idle"]
    /\ locF = [p \in Procs |-> None]
    /\ invR = None
    /\ InitSinUso

\* one invocation at a time
NextLlenado == LlenadoPaso(1)

SpecLlenado == InitLlenado /\ [][NextLlenado]_vars

----------------------------------------------------------------------------
(* Claims on RegistrarLlenado, one invocation at a time (SpecLlenado).      *)
(* Every repository call may raise; what a claim says of a working gateway *)
(* is stated for the invocations in which no call raised.                  *)

TerminadoL(p) == pcL[p] = "done"

\* the tank document the invocation of p found when it started, or None
DocInicialL(p) == FindOne(locL[p].cisternas0, locL[p].cisterna_id)

\* the invocation's input is valid and its tank was stored and operational
EntradaValidaL(p) ==
    /\ DocInicialL(p) # None
    /\ DocInicialL(p).estado = "operativa"
    /\ locL[p].litros > 0
    /\ locL[p].costo >= 0
    /\ ~Vacio(locL[p].proveedor)

C5_ClaseDistinta ==
    \A p \in Procs :
        (/\ TerminadoL(p)
         /\ DocInicialL(p) # None
         /\ DocInicialL(p).estado # "operativa") =>
            /\ locL[p].res.exc # ""
            /\ locL[p].res.exc # ErrCisternaNoEncontrada.exc
            /\ locL[p].res.exc # ValueError("cantidad_no_positiva").exc

\* C5 amended: on a stored tank that is damaged, under maintenance or
\* inactive the invocation fails with the ValueError "cisterna no operativa"
\* (the class raised for an absent tank and for invalid input too, told
\* apart by its message only) and writes nothing; an invocation succeeds
\* only on an operational tank.
C5_NoOperativaRechazada ==
    \A p \in Procs :
        TerminadoL(p) =>
            /\ (/\ DocInicialL(p) # None
                /\ DocInicialL(p).estado # "operativa"
                /\ locL[p].res.exc # "PyMongoError") =>
                   /\ locL[p].res = ErrCisternaNoOperativa
                   /\ locL[p].res.exc = ErrCisternaNoEncontrada.exc
                   /\ locL[p].res.msg # ErrCisternaNoEncontrada.msg
                   /\ cisternas = locL[p].cisternas0
                   /\ llenados = locL[p].llenados0
            /\ (DocInicialL(p) = None /\ locL[p].res.exc # "PyMongoError")
                   => locL[p].res = ErrCisternaNoEncontrada
            /\ locL[p].res = SinError =>
                   (DocInicialL(p) # None /\ DocInicialL(p).estado = "operativa")

\* a valid refill request was turned away because the tank is damaged
C5_Witness ==
    \E p \in Procs :
        /\ TerminadoL(p)
        /\ DocInicialL(p) # None
        /\ DocInicialL(p).estado = "dañada"
        /\ locL[p].litros > 0 /\ locL[p].costo >= 0 /\ ~Vacio(locL[p].proveedor)
        /\ locL[p].res = ErrCisternaNoOperativa

\* C6: the record is inserted before the tank update is attempted and is
\* not rolled back: when the update raises, the error reaches the caller,
\* the new record stays stored and the stored tank level is still the
\* record's nivel_anterior.
C6_RegistroSinCompensar ==
    \A p \in Procs :
        /\ pcL[p] = "actualizar" =>
               /\ llenados = InsertOne(locL[p].llenados0, locL[p].llenado)
               /\ cisternas = locL[p].cisternas0
        /\ (TerminadoL(p) /\ locL[p].res = PyMongoError("cisterna_repo.actualizar")) =>
               /\ llenados = InsertOne(locL[p].llenados0, locL[p].llenado)
               /\ cisternas = locL[p].cisternas0
               /\ cisternas[locL[p].cisterna_id].nivel_actual
                      = llenados[Len(llenados)].nivel_anterior

\* the tank update failed after a record that raised the level was stored
C6_Witness ==
    \E p \in Procs :
        /\ TerminadoL(p)
        /\ locL[p].res = PyMongoError("cisterna_repo.actualizar")
        /\ Len(llenados) = Len(locL[p].llenados0) + 1
        /\ llenados[Len(llenados)].nivel_posterior
               > llenados[Len(llenados)].nivel_anterior

\* C7: an invocation that fails before the record is stored (tank absent,
\* tank not operational, liters <= 0, cost < 0, empty provider) leaves the
\* llenados and cisternas collections as they were: the fill done in memory
\* is never stored.
C7_FalloSinEscritura ==
    \A p \in Procs :
        (TerminadoL(p) /\ ~EntradaValidaL(p)) =>
            /\ locL[p].res # SinError
            /\ cisternas = locL[p].cisternas0
            /\ llenados = locL[p].llenados0

\* a negative cost was rejected after the tank had been filled in memory
C7_Witness ==
    \E p \in Procs :
        /\ TerminadoL(p)
        /\ DocInicialL(p) # None
        /\ DocInicialL(p).estado = "operativa"
        /\ DocInicialL(p).nivel_actual < DocInicialL(p).capacidad_total
        /\ locL[p].litros > 0
        /\ locL[p].costo < 0
        /\ locL[p].res = ValueError("costo_negativo")

----------------------------------------------------------------------------
(* Familia entity: src/domain/entities/familia.py *)

LITROS_POR_PERSONA_DIA == 50

\* Familia.__post_init__, lines 41-51: the message of the ValueError raised,
\* "" if none.  zona is trimmed and never checked.
FamiliaPostInit(direccion, num_personas, capacidad_almacenamiento, contacto) ==
    IF Vacio(direccion) THEN "direccion_vacia"
    ELSE IF num_personas <= 0 THEN "num_personas_no_positivo"
    ELSE IF capacidad_almacenamiento <= 0 THEN "capacidad_no_positiva"
    ELSE IF Vacio(contacto) THEN "contacto_vacio"
    ELSE ""

\* mutant of CalcularConsumoEstimado: the estimate of one person
CalcularConsumoEstimadoDeUno(num_personas) == LITROS_POR_PERSONA_DIA

\* Familia.calcular_consumo_estimado
CalcularConsumoEstimado(num_personas) == num_personas * LITROS_POR_PERSONA_DIA

\* Familia.__post_init__, lines 53-64, and to_dict: the document of a valid
\* family.  An absent consumo_promedio_diario (None) is the empty sequence.
FamiliaDoc(direccion, num_personas, contacto, capacidad_almacenamiento, tiene_cisterna, zona, consumo) ==
    [direccion |-> Strip(direccion), num_personas |-> num_personas,
     contacto |-> Strip(contacto),
     capacidad_almacenamiento |-> capacidad_almacenamiento,
     tiene_cisterna |-> tiene_cisterna, zona |-> Strip(zona),
     consumo_promedio_diario |->
         IF consumo = <<>> THEN CalcularConsumoEstimado(num_personas)
         ELSE consumo[1],
     activo |-> TRUE]

----------------------------------------------------------------------------
(* MongoDBFamiliaRepository and the indexes of the 'familias' collection *)

\* insert_one refused by the unique index on 'contacto'
DuplicateKeyError == [exc |-> "DuplicateKeyError", msg |-> "contacto"]

\* mutant of ViolaIndiceContacto: the collection has no unique index
SinIndiceContacto(coleccion, doc) == FALSE

\* MongoDBConnection._crear_indices: create_index('contacto', unique=True);
\* an insert is refused when a stored document has the same contacto
ViolaIndiceContacto(coleccion, doc) ==
    \E i \in 1 .. Len(coleccion) : coleccion[i].contacto = doc.contacto

\* buscar_por_contacto: find_one({'contacto': contacto}) matches the stored
\* string exactly; the argument is the caller's, untrimmed
BuscarPorContacto(coleccion, contacto) ==
    \E i \in 1 .. Len(coleccion) : coleccion[i].contacto = contacto

----------------------------------------------------------------------------
(* RegistrarFamilia.ejecutar: src/application/use_cases/registrar_familia.py *)

ErrContactoExiste == ValueError("contacto_ya_registrado")

\* mutant of FamiliaVerificar: the entity is constructed before the lookup
\* result is looked at
FamiliaVerificarTrasConstruir(existe, e) ==
    IF e # "" THEN ValueError(e)
    ELSE IF existe THEN ErrContactoExiste
    ELSE SinError

\* lines 52-66: the duplicate check comes first, then the constructor's
\* validation (existe: buscar_por_contacto found one; e: __post_init__)
FamiliaVerificar(existe, e) ==
    IF existe THEN ErrContactoExiste
    ELSE IF e # "" THEN ValueError(e)
    ELSE SinError

ContactoArgs == {<<>>, <<" ">>, <<"a">>, <<" ", "a">>, <<"a", " ">>, <<"b">>}
DireccionArgs == {<<>>, <<" ">>, <<"d", " ">>}
ZonaArgs == {<<>>, <<" ", "z">>}
NumPersonasArgs == {0, 4}
CapacidadAlmacenamientoArgs == {0, 5}
ConsumoArgs == {<<>>, <<7>>}

\* every argument tuple of ejecutar drawn
FamiliaArgs ==
    [direccion : DireccionArgs, num_personas : NumPersonasArgs,
     contacto : ContactoArgs, capacidad_almacenamiento : CapacidadAlmacenamientoArgs,
     tiene_cisterna : BOOLEAN, zona : ZonaArgs, consumo : ConsumoArgs]

\* the argument tuples that differ in the contact only
FamiliaArgsContacto ==
    {a \in FamiliaArgs :
        /\ a.direccion = <<"d", " ">> /\ a.num_personas = 4
        /\ a.capacidad_almacenamiento = 5 /\ a.tiene_cisterna = FALSE
        /\ a.zona = <<" ", "z">> /\ a.consumo = <<>>}

EnCursoF == {p \in Procs : pcF[p] # "idle"}

otrosF == <<cisterna, ult_op, cisternas, llenados, reportes, pcL, locL,
            invR, reporte, reloj, invD, invC>>

\* ejecutar(direccion, num_personas, contacto, ...) is called
FamiliaIniciar(p, a) ==
    /\ pcF[p] = "idle"
    /\ Len(familias) + Cardinality(EnCursoF) < MaxFamilias
    /\ pcF' = [pcF EXCEPT ![p] = "buscar"]
    /\ locF' = [locF EXCEPT ![p] =
                   [args |-> a, familia |-> None, res |-> SinError,
                    familias0 |-> familias]]
    /\ UNCHANGED familias
    /\ UNCHANGED otrosF

FamiliaFalla(p, r) ==
    /\ pcF' = [pcF EXCEPT ![p] = "done"]
    /\ locF' = [locF EXCEPT ![p].res = r]
    /\ UNCHANGED familias

\* lines 52-66: look the contact up, then construct the entity
FamiliaBuscar(p) ==
    /\ pcF[p] = "buscar"
    /\ UNCHANGED otrosF
    /\ \/ FamiliaFalla(p, PyMongoError("familia_repo.buscar_por_contacto"))
       \/ LET a == locF[p].args
              r == FamiliaVerificar(
                       BuscarPorContacto(familias, a.contacto),
                       FamiliaPostInit(a.direccion, a.num_personas,
                                       a.capacidad_almacenamiento, a.contacto))
          IN
          IF r # SinError THEN FamiliaFalla(p, r)
          ELSE /\ pcF' = [pcF EXCEPT ![p] = "guardar"]
               /\ locF' = [locF EXCEPT ![p].familia =
                              FamiliaDoc(a.direccion, a.num_personas, a.contacto,
                                         a.capacidad_almacenamiento,
                                         a.tiene_cisterna, a.zona, a.consumo)]
               /\ UNCHANGED familias

\* lines 68-71: familia_repo.guardar(familia); return
FamiliaGuardar(p) ==
    /\ pcF[p] = "guardar"
    /\ UNCHANGED otrosF
    /\ \/ FamiliaFalla(p, PyMongoError("familia_repo.guardar"))
       \/ IF ViolaIndiceContacto(familias, locF[p].familia)
          THEN FamiliaFalla(p, DuplicateKeyError)
          ELSE /\ familias' = InsertOne(familias, locF[p].familia)
               /\ pcF' = [pcF EXCEPT ![p] = "done"]
               /\ UNCHANGED locF

FamiliaRetornar(p) ==
    /\ pcF[p] = "done"
    /\ pcF' = [pcF EXCEPT ![p] = "idle"]
    /\ locF' = [locF EXCEPT ![p] = None]
    /\ UNCHANGED familias
    /\ UNCHANGED otrosF

InitFamilia ==
    /\ familias = <<>>
    /\ pcF = [p \in Procs |-> "idle"]
    /\ locF = [p \in Procs |-> None]
    /\ cisterna = None
    /\ ult_op = NoOp
    /\ cisternas = <<>>
    /\ llenados = <<>>
    /\ reportes = <<>>
    /\ pcL = [p \in Procs |-> "idle"]
    /\ locL = [p \in Procs |-> None]
    /\ invR = None
    /\ InitSinUso

\* one invocation at a time, every argument drawn
NextFamilia ==
    \/ \E a \in FamiliaArgs : FamiliaIniciar(1, a)
    \/ FamiliaBuscar(1)
    \/ FamiliaGuardar(1)
    \/ FamiliaRetornar(1)

SpecFamilia == InitFamilia /\ [][NextFamilia]_vars

\* concurrent invocations, differing in the contact
NextFamiliaConc ==
    \E p \in Procs :
        \/ \E a \in FamiliaArgsContacto : FamiliaIniciar(p, a)
        \/ FamiliaBuscar(p)
        \/ FamiliaGuardar(p)
        \/ FamiliaRetornar(p)

SpecFamiliaConc == InitFamilia /\ [][NextFamiliaConc]_vars

----------------------------------------------------------------------------
(* Claims on RegistrarFamilia *)

TerminadoF(p) == pcF[p] = "done"

\* C8: RegistrarFamilia called with a contact equal to a stored family's
\* contact fails with the duplicate-contact error before the Familia is
\* constructed (so it is that error also when other fields are invalid), and
\* the familias collection is unchanged.
C8_ContactoRepetido ==
    \A p \in Procs :
        (TerminadoF(p) /\ BuscarPorContacto(locF[p].familias0, locF[p].args.contacto)) =>
            /\ locF[p].res # SinError
            /\ locF[p].res.exc # "PyMongoError" => locF[p].res = ErrContactoExiste
            /\ locF[p].familia = None
            /\ familias = locF[p].familias0

\* a stored contact was given again together with an empty address
C8_Witness ==
    \E p \in Procs :
        /\ TerminadoF(p)
        /\ BuscarPorContacto(locF[p].familias0, locF[p].args.contacto)
        /\ Vacio(locF[p].args.direccion)
        /\ locF[p].args.num_personas <= 0
        /\ locF[p].res = ErrContactoExiste

C9_WitnessBlancos ==
    \E p \in Procs :
        /\ TerminadoF(p)
        /\ locF[p].args.contacto = <<" ", "a">>
        /\ Len(locF[p].familias0) = 1
        /\ locF[p].familias0[1].contacto = <<"a">>
        /\ locF[p].res = DuplicateKeyError

----------------------------------------------------------------------------
(* Reporte entity: src/domain/entities/reporte.py *)

TipoReporte == {"agua_acabandose", "agua_contaminada", "cisterna_dañada",
                "fuga_agua", "solicitud_llenado", "otro"}
Urgencia == {"baja", "media", "alta", "critica"}
EstadoReporte == {"pendiente", "en_revision", "en_proceso", "resuelto", "cerrado"}

\* Reporte.__post_init__ (familia_id is a well-formed id here): the message
\* of the ValueError raised, "" if none
ReportePostInit(descripcion) ==
    IF Vacio(descripcion) THEN "descripcion_vacia" ELSE ""

\* Reporte.to_dict of a report just constructed: no resolution date (0) and
\* no resolution notes yet; an absent cisterna_id (None) is 0
ReporteDoc(familia_id, tipo, descripcion, urgencia, estado, cisterna_id) ==
    [familia_id |-> familia_id, tipo |-> tipo, descripcion |-> Strip(descripcion),
     urgencia |-> urgencia, estado |-> estado, cisterna_id |-> cisterna_id,
     fecha_resolucion |-> 0, observaciones_resolucion |-> <<>>]

----------------------------------------------------------------------------
(* CrearReporte.ejecutar: src/application/use_cases/crear_reporte.py *)

\* mutant of UrgenciaAjustada: every low urgency is raised, whatever the type
UrgenciaAjustadaSiempre(tipo_reporte, nivel_urgencia) ==
    IF nivel_urgencia = "baja" THEN "media" ELSE nivel_urgencia

\* lines 93-97: a report that water is running out is at least MEDIA
UrgenciaAjustada(tipo_reporte, nivel_urgencia) ==
    IF tipo_reporte = "agua_acabandose" /\ nivel_urgencia = "baja"
    THEN "media" ELSE nivel_urgencia

FamiliaIdArgs == {1, 2}
TipoReporteArgs == TipoReporte \cup {"sin_agua"}
UrgenciaArgs == Urgencia \cup {"urgente"}
DescripcionArgs == {<<" ">>, <<"x", " ">>}
CisternaIdOpcionalArgs == {0, 1, 2}

ReporteArgs ==
    [familia_id : FamiliaIdArgs, tipo : TipoReporteArgs, urgencia : UrgenciaArgs,
     descripcion : DescripcionArgs, cisterna_id : CisternaIdOpcionalArgs]

\* the repository calls of ejecutar; falla names the one that raises, "" none
FallasReporte == {"", "familia_repo.obtener_por_id",
                  "cisterna_repo.obtener_por_id", "reporte_repo.guardar"}

\* mutant of CrearReporteResultado: an urgency outside the enumeration is
\* let through instead of being rejected
CrearReporteResultadoUrgenciaLaxa(a, falla) ==
    IF falla = "familia_repo.obtener_por_id" THEN PyMongoError(falla)
    ELSE IF FindOne(familias, a.familia_id) = None
    THEN ValueError("familia_no_encontrada")
    ELSE IF a.tipo \notin TipoReporte THEN ValueError("tipo_invalido")
    ELSE IF a.cisterna_id # 0 /\ falla = "cisterna_repo.obtener_por_id"
    THEN PyMongoError(falla)
    ELSE IF a.cisterna_id # 0 /\ FindOne(cisternas, a.cisterna_id) = None
    THEN ValueError("cisterna_no_encontrada")
    ELSE IF ReportePostInit(a.descripcion) # ""
    THEN ValueError(ReportePostInit(a.descripcion))
    ELSE IF falla = "reporte_repo.guardar" THEN PyMongoError(falla)
    ELSE SinError

\* lines 64-112: what ejecutar raises (SinError: it returns the stored report)
CrearReporteResultado(a, falla) ==
    IF falla = "familia_repo.obtener_por_id" THEN PyMongoError(falla)
    ELSE IF FindOne(familias, a.familia_id) = None
    THEN ValueError("familia_no_encontrada")
    ELSE IF a.tipo \notin TipoReporte THEN ValueError("tipo_invalido")
    ELSE IF a.urgencia \notin Urgencia THEN ValueError("urgencia_invalida")
    ELSE IF a.cisterna_id # 0 /\ falla = "cisterna_repo.obtener_por_id"
    THEN PyMongoError(falla)
    ELSE IF a.cisterna_id # 0 /\ FindOne(cisternas, a.cisterna_id) = None
    THEN ValueError("cisterna_no_encontrada")
    ELSE IF ReportePostInit(a.descripcion) # ""
    THEN ValueError(ReportePostInit(a.descripcion))
    ELSE IF falla = "reporte_repo.guardar" THEN PyMongoError(falla)
    ELSE SinError

otrosR == <<cisterna, ult_op, familias, cisternas, llenados, pcL, locL, pcF,
            locF, reporte, reloj, invD, invC>>

\* ejecutar(familia_id, tipo, descripcion, urgencia, cisterna_id) is called
ReporteIniciar(a) ==
    /\ invR = None
    /\ Len(reportes) < MaxReportes
    /\ invR' = [fase |-> "llamado", args |-> a, res |-> SinError,
                reportes0 |-> reportes, familias0 |-> familias,
                cisternas0 |-> cisternas, llenados0 |-> llenados]
    /\ UNCHANGED reportes
    /\ UNCHANGED otrosR

\* lines 64-114: the body of ejecutar, to its return or raise
CrearReporte(falla) ==
    /\ invR # None
    /\ invR.fase = "llamado"
    /\ LET a == invR.args
           r == CrearReporteResultado(a, falla)
       IN
       /\ reportes' =
              IF r = SinError
              THEN InsertOne(reportes,
                       ReporteDoc(a.familia_id, a.tipo, a.descripcion,
                                  UrgenciaAjustada(a.tipo, a.urgencia),
                                  "pendiente", a.cisterna_id))
              ELSE reportes
       /\ invR' = [invR EXCEPT !.fase = "terminado", !.res = r]
    /\ UNCHANGED otrosR

\* the caller has the report or the exception
ReporteRetornar ==
    /\ invR # None
    /\ invR.fase = "terminado"
    /\ invR' = None
    /\ UNCHANGED reportes
    /\ UNCHANGED otrosR

InitReporte ==
    /\ familias = <<FamiliaDoc(<<"d">>, 4, <<"a">>, 5, FALSE, <<"z">>, <<>>)>>
    /\ cisternas = <<CisternaDoc(NuevaEntidad(<<"u">>, "comunitaria", MaxCap, 0,
                                              0, "operativa", 1))>>
    /\ reportes = <<>>
    /\ invR = None
    /\ cisterna = None
    /\ ult_op = NoOp
    /\ llenados = <<>>
    /\ pcL = [p \in Procs |-> "idle"]
    /\ locL = [p \in Procs |-> None]
    /\ pcF = [p \in Procs |-> "idle"]
    /\ locF = [p \in Procs |-> None]
    /\ InitSinUso

NextReporte ==
    \/ \E a \in ReporteArgs : ReporteIniciar(a)
    \/ \E falla \in FallasReporte : CrearReporte(falla)
    \/ ReporteRetornar

SpecReporte == InitReporte /\ [][NextReporte]_vars

----------------------------------------------------------------------------
(* Claims on CrearReporte *)

TerminadoR == invR # None /\ invR.fase = "terminado"

\* C10: a successful CrearReporte stores a report whose estado is pendiente
\* and whose urgencia is media when tipo = agua_acabandose and the requested
\* urgencia is baja, and is the requested urgencia in every other case.
C10_UrgenciaMinima ==
    (TerminadoR /\ invR.res = SinError) =>
        LET a == invR.args
            r == reportes[Len(reportes)]
        IN
        /\ Len(reportes) = Len(invR.reportes0) + 1
        /\ r.tipo = a.tipo
        /\ r.estado = "pendiente"
        /\ (a.tipo = "agua_acabandose" /\ a.urgencia = "baja") => r.urgencia = "media"
        /\ ~(a.tipo = "agua_acabandose" /\ a.urgencia = "baja")
               => r.urgencia = a.urgencia

\* a running-out report asked with low urgency was stored
C10_Witness ==
    /\ TerminadoR
    /\ invR.res = SinError
    /\ invR.args.tipo = "agua_acabandose"
    /\ invR.args.urgencia = "baja"
    /\ Len(reportes) = 1
    /\ reportes[1].urgencia = "media"

\* a report of another type asked with low urgency was stored as low
C10_WitnessOtroTipo ==
    /\ TerminadoR
    /\ invR.res = SinError
    /\ invR.args.tipo = "fuga_agua"
    /\ invR.args.urgencia = "baja"
    /\ reportes[Len(reportes)].urgencia = "baja"

\* C11: CrearReporte stores a report only if the family exists, tipo and
\* urgencia are values of their enumerations (an unknown string is rejected,
\* never replaced by a default) and a given cisterna_id exists; when it
\* fails, no report is stored and no other collection changes.
C11_SoloSiValido ==
    TerminadoR =>
        LET a == invR.args IN
        /\ invR.res = SinError =>
               /\ FindOne(invR.familias0, a.familia_id) # None
               /\ a.tipo \in TipoReporte
               /\ a.urgencia \in Urgencia
               /\ a.cisterna_id # 0 => FindOne(invR.cisternas0, a.cisterna_id) # None
               /\ reportes[Len(reportes)].tipo = a.tipo
               /\ reportes[Len(reportes)].urgencia \in Urgencia
        /\ invR.res # SinError =>
               /\ reportes = invR.reportes0
               /\ familias = invR.familias0
               /\ cisternas = invR.cisternas0
               /\ llenados = invR.llenados0
        /\ (\/ FindOne(invR.familias0, a.familia_id) = None
            \/ a.tipo \notin TipoReporte
            \/ a.urgencia \notin Urgencia
            \/ (a.cisterna_id # 0 /\ FindOne(invR.cisternas0, a.cisterna_id) = None))
               => invR.res # SinError

\* an urgency outside the enumeration was rejected, all else being valid
C11_Witness ==
    /\ TerminadoR
    /\ invR.res = ValueError("urgencia_invalida")
    /\ FindOne(invR.familias0, invR.args.familia_id) # None
    /\ invR.args.tipo \in TipoReporte
    /\ invR.args.cisterna_id = 1
    /\ ~Vacio(invR.args.descripcion)
    /\ reportes = invR.reportes0

\* a reference to a tank that is not stored was rejected
C11_WitnessCisterna ==
    /\ TerminadoR
    /\ invR.res = ValueError("cisterna_no_encontrada")
    /\ invR.args.cisterna_id = 2
    /\ reportes = invR.reportes0

----------------------------------------------------------------------------
(* SpecReporteEntidad: one Reporte entity under arbitrary calls.            *)
(* datetime.now() reads reloj, which never runs backwards; the date None is *)
(* 0 and the clock starts at 1.  observaciones_resolucion None is <<>>.     *)

MaxReloj == 3        \* instants the clock goes through

Resueltos == {"resuelto", "cerrado"}

\* the entity CrearReporte constructs: pending, no resolution date
NuevoReporte(urgencia) ==
    [urgencia |-> urgencia, estado |-> "pendiente", fecha_resolucion |-> 0,
     observaciones_resolucion |-> <<>>]

\* mutant of CambiarEstado: a resolved or closed report cannot be reopened
CambiarEstadoSinReabrir(r, nuevo_estado, ahora) ==
    IF nuevo_estado \notin EstadoReporte
    THEN [error |-> "estado_invalido", r |-> r]
    ELSE IF r.estado \in Resueltos /\ nuevo_estado \notin Resueltos
    THEN [error |-> "transicion_invalida", r |-> r]
    ELSE [error |-> "",
          r |-> [r EXCEPT !.estado = nuevo_estado,
                          !.fecha_resolucion =
                              IF nuevo_estado \in Resueltos /\ r.fecha_resolucion = 0
                              THEN ahora ELSE r.fecha_resolucion]]

\* mutant of CambiarEstado: closing a report records no date
CambiarEstadoCierreSinFecha(r, nuevo_estado, ahora) ==
    IF nuevo_estado \notin EstadoReporte
    THEN [error |-> "estado_invalido", r |-> r]
    ELSE [error |-> "",
          r |-> [r EXCEPT !.estado = nuevo_estado,
                          !.fecha_resolucion =
                              IF nuevo_estado = "resuelto" /\ r.fecha_resolucion = 0
                              THEN ahora ELSE r.fecha_resolucion]]

\* Reporte.cambiar_estado: the error raised ("" if none) and the entity
\* afterwards; ahora is what datetime.now() returns
CambiarEstado(r, nuevo_estado, ahora) ==
    IF nuevo_estado \notin EstadoReporte
    THEN [error |-> "estado_invalido", r |-> r]
    ELSE [error |-> "",
          r |-> [r EXCEPT !.estado = nuevo_estado,
                          !.fecha_resolucion =
                              IF nuevo_estado \in Resueltos /\ r.fecha_resolucion = 0
                              THEN ahora ELSE r.fecha_resolucion]]

\* Reporte.resolver: the date is assigned whatever it was
Resolver(r, observaciones, ahora) ==
    [error |-> "",
     r |-> [r EXCEPT !.estado = "resuelto",
                     !.fecha_resolucion = ahora,
                     !.observaciones_resolucion =
                         IF observaciones # <<>> THEN Strip(observaciones)
                         ELSE r.observaciones_resolucion]]

\* mutant of AumentarUrgencia: the step after critica is baja
AumentarUrgenciaCiclica(r) ==
    [error |-> "",
     r |-> [r EXCEPT !.urgencia =
                CASE r.urgencia = "baja" -> "media"
                  [] r.urgencia = "media" -> "alta"
                  [] r.urgencia = "alta" -> "critica"
                  [] OTHER -> "baja"]]

\* Reporte.aumentar_urgencia
AumentarUrgencia(r) ==
    [error |-> "",
     r |-> [r EXCEPT !.urgencia =
                CASE r.urgencia = "baja" -> "media"
                  [] r.urgencia = "media" -> "alta"
                  [] r.urgencia = "alta" -> "critica"
                  [] OTHER -> r.urgencia]]

\* cambiar_estado is given an EstadoReporte, or a plain string
NuevoEstadoArgs == EstadoReporte \cup {"str"}
ObservacionesArgs == {<<>>, <<" ", "n">>}

otrosE == <<cisterna, familias, cisternas, llenados, reportes, pcL, locL, pcF,
            locF, invR, invD, invC>>

\* time passes between two calls
Tic ==
    /\ reloj < MaxReloj
    /\ reloj' = reloj + 1
    /\ UNCHANGED <<reporte, ult_op>>
    /\ UNCHANGED otrosE

LlamarCambiarEstado(nuevo_estado) ==
    /\ LET x == CambiarEstado(reporte, nuevo_estado, reloj) IN
       /\ reporte' = x.r
       /\ ult_op' = [op |-> "cambiar_estado", arg |-> nuevo_estado,
                     antes |-> reporte, error |-> x.error,
                     ahora |-> reloj]
    /\ UNCHANGED reloj
    /\ UNCHANGED otrosE

LlamarResolver(observaciones) ==
    /\ LET x == Resolver(reporte, observaciones, reloj) IN
       /\ reporte' = x.r
       /\ ult_op' = [op |-> "resolver", arg |-> observaciones,
                     antes |-> reporte, error |-> x.error,
                     ahora |-> reloj]
    /\ UNCHANGED reloj
    /\ UNCHANGED otrosE

LlamarAumentarUrgencia ==
    /\ LET x == AumentarUrgencia(reporte) IN
       /\ reporte' = x.r
       /\ ult_op' = [op |-> "aumentar_urgencia", arg |-> 0,
                     antes |-> reporte, error |-> x.error,
                     ahora |-> reloj]
    /\ UNCHANGED reloj
    /\ UNCHANGED otrosE

InitReporteEntidad ==
    /\ \E u \in Urgencia : reporte = NuevoReporte(u)
    /\ reloj = 1
    /\ ult_op = NoOp
    /\ cisterna = None
    /\ familias = <<>>
    /\ cisternas = <<>>
    /\ llenados = <<>>
    /\ reportes = <<>>
    /\ pcL = [p \in Procs |-> "idle"]
    /\ locL = [p \in Procs |-> None]
    /\ pcF = [p \in Procs |-> "idle"]
    /\ locF = [p \in Procs |-> None]
    /\ invR = None
    /\ invD = None
    /\ invC = None

NextReporteEntidad ==
    \/ Tic
    \/ \E e \in NuevoEstadoArgs : LlamarCambiarEstado(e)
    \/ \E o \in ObservacionesArgs : LlamarResolver(o)
    \/ LlamarAumentarUrgencia

SpecReporteEntidad == InitReporteEntidad /\ [][NextReporteEntidad]_vars

----------------------------------------------------------------------------
(* Claims on the Reporte entity *)

\* C12 as stated: over any sequence of cambiar_estado and resolver calls the
\* resolution date is set by the first call that enters resuelto or cerrado
\* and no later call changes it, a later resolver(notes) included.
C12_FechaUnaVez ==
    ult_op.op \in {"cambiar_estado", "resolver"} =>
        /\ ult_op.antes.fecha_resolucion # 0
               => reporte.fecha_resolucion = ult_op.antes.fecha_resolucion
        /\ (ult_op.antes.fecha_resolucion = 0 /\ reporte.estado \in Resueltos
               /\ ult_op.error = "")
               => reporte.fecha_resolucion = ult_op.ahora

----------------------------------------------------------------------------
(* The read operations of the repositories that ObtenerDashboard calls.    *)
(* A list returned by find() is modelled by the set of the positions of    *)
(* its documents, of which the use case takes the length only.             *)

RECURSIVE Suma(_)
\* {'$group': {'_id': None, 'total': {'$sum': ...}}} over the values s
Suma(s) == IF s = <<>> THEN 0 ELSE Head(s) + Suma(Tail(s))

\* round(num / den, 2) in hundredths, for num >= 0 and den > 0.  No value
\* drawn here falls halfway between two hundredths.
Redondear2(num, den) == (2 * 100 * num + den) \div (2 * den)

\* MongoDBFamiliaRepository
ContarFamilias(coleccion) == Len(coleccion)
ObtenerActivas(coleccion) ==
    {i \in 1 .. Len(coleccion) : coleccion[i].activo}
ObtenerConCisterna(coleccion) ==
    {i \in 1 .. Len(coleccion) : coleccion[i].tiene_cisterna}
ObtenerSinCisterna(coleccion) ==
    {i \in 1 .. Len(coleccion) : ~coleccion[i].tiene_cisterna}

\* Cisterna.nivel_critico / nivel_bajo: porcentaje_lleno() <= porcentaje,
\* where capacidad_total > 0 in every stored tank
NivelBajoElPorcentaje(doc, porcentaje) ==
    doc.nivel_actual * 100 <= porcentaje * doc.capacidad_total

\* MongoDBCisternaRepository
ContarCisternas(coleccion) == Len(coleccion)
ObtenerOperativas(coleccion) ==
    {i \in 1 .. Len(coleccion) : coleccion[i].estado = "operativa"}
ObtenerVacias(coleccion) ==
    {i \in 1 .. Len(coleccion) : coleccion[i].nivel_actual = 0}
ObtenerConNivelCritico(coleccion) ==
    {i \in ObtenerOperativas(coleccion) : NivelBajoElPorcentaje(coleccion[i], 20)}
ObtenerConNivelBajo(coleccion) ==
    {i \in ObtenerOperativas(coleccion) : NivelBajoElPorcentaje(coleccion[i], 40)}
ObtenerPrioritarias(coleccion) ==
    {i \in 1 .. Len(coleccion) : coleccion[i].tipo \in {"escolar", "centro_salud"}}
CalcularCapacidadTotal(coleccion) ==
    Suma([i \in 1 .. Len(coleccion) |-> coleccion[i].capacidad_total])
CalcularNivelTotal(coleccion) ==
    Suma([i \in 1 .. Len(coleccion) |-> coleccion[i].nivel_actual])

\* MongoDBLlenadoRepository
ContarLlenados(coleccion) == Len(coleccion)
CalcularTotalLitros(coleccion) ==
    Suma([i \in 1 .. Len(coleccion) |-> coleccion[i].litros_suministrados])
CalcularTotalCosto(coleccion) ==
    Suma([i \in 1 .. Len(coleccion) |-> coleccion[i].costo])
\* total_costo / total_litros if total_litros > 0 else 0.0; in hundredths, as
\* the dashboard rounds it
CalcularCostoPromedioPorLitro(coleccion) ==
    IF CalcularTotalLitros(coleccion) > 0
    THEN Redondear2(CalcularTotalCosto(coleccion), CalcularTotalLitros(coleccion))
    ELSE 0

\* MongoDBReporteRepository
ContarReportes(coleccion) == Len(coleccion)
ContarPorEstado(coleccion, estado) ==
    Cardinality({i \in 1 .. Len(coleccion) : coleccion[i].estado = estado})
ContarUrgentes(coleccion) ==
    Cardinality({i \in 1 .. Len(coleccion) :
                    /\ coleccion[i].urgencia \in {"alta", "critica"}
                    /\ coleccion[i].estado \in {"pendiente", "en_revision"}})

----------------------------------------------------------------------------
(* ObtenerDashboard.ejecutar: src/application/use_cases/obtener_dashboard.py *)

\* mutant of PorcentajeLleno: a system without capacity counts as full
PorcentajeLlenoSinCapacidad(nivel_total, capacidad_total) ==
    IF capacidad_total > 0 THEN Redondear2(nivel_total * 100, capacidad_total)
    ELSE 100 * 100

\* lines 69 and 129: round(nivel_total / capacidad_total * 100, 2) if
\* capacidad_total > 0, else 0; in hundredths of a percent
PorcentajeLleno(nivel_total, capacidad_total) ==
    IF capacidad_total > 0 THEN Redondear2(nivel_total * 100, capacidad_total)
    ELSE 0

\* one entry of 'alertas'; mensaje is the text after the count
Alerta(tipo, mensaje, cantidad) ==
    [tipo |-> tipo, mensaje |-> mensaje, cantidad |-> cantidad]

AlertaVacias(n) == Alerta("critico", "cisterna(s) vacía(s)", n)
AlertaNivelCritico(n) == Alerta("urgente", "cisterna(s) con nivel crítico", n)
AlertaReportesUrgentes(n) == Alerta("urgente", "reporte(s) urgente(s) pendiente(s)", n)
AlertaNivelBajo(n) == Alerta("advertencia", "cisterna(s) con nivel bajo", n)

\* `if n > 0: alertas.append(alerta)`
AppendSi(alertas, n, alerta) == IF n > 0 THEN Append(alertas, alerta) ELSE alertas

\* mutant of Alertas: the alert on urgent reports is appended last
AlertasReportesAlFinal(vacias, nivel_critico, urgentes, nivel_bajo) ==
    AppendSi(AppendSi(AppendSi(AppendSi(<<>>,
        vacias, AlertaVacias(vacias)),
        nivel_critico, AlertaNivelCritico(nivel_critico)),
        nivel_bajo, AlertaNivelBajo(nivel_bajo)),
        urgentes, AlertaReportesUrgentes(urgentes))

\* mutant of Alertas: the alert on low tanks is appended whatever the count
AlertasBajoSiempre(vacias, nivel_critico, urgentes, nivel_bajo) ==
    Append(AppendSi(AppendSi(AppendSi(<<>>,
        vacias, AlertaVacias(vacias)),
        nivel_critico, AlertaNivelCritico(nivel_critico)),
        urgentes, AlertaReportesUrgentes(urgentes)),
        AlertaNivelBajo(nivel_bajo))

\* lines 82-111: the alerts, in the order of the four if statements
Alertas(vacias, nivel_critico, urgentes, nivel_bajo) ==
    AppendSi(AppendSi(AppendSi(AppendSi(<<>>,
        vacias, AlertaVacias(vacias)),
        nivel_critico, AlertaNivelCritico(nivel_critico)),
        urgentes, AlertaReportesUrgentes(urgentes)),
        nivel_bajo, AlertaNivelBajo(nivel_bajo))

\* lines 53-143: the dictionary returned, from what the four repositories
\* hold.  Amounts in Bs and the percentage are in hundredths.
Dashboard(fs, cs, ls, rs) ==
    [familias |->
        [total |-> ContarFamilias(fs),
         activas |-> Cardinality(ObtenerActivas(fs)),
         con_cisterna |-> Cardinality(ObtenerConCisterna(fs)),
         sin_cisterna |-> Cardinality(ObtenerSinCisterna(fs))],
     cisternas |->
        [total |-> ContarCisternas(cs),
         operativas |-> Cardinality(ObtenerOperativas(cs)),
         vacias |-> Cardinality(ObtenerVacias(cs)),
         nivel_critico |-> Cardinality(ObtenerConNivelCritico(cs)),
         nivel_bajo |-> Cardinality(ObtenerConNivelBajo(cs)),
         prioritarias |-> Cardinality(ObtenerPrioritarias(cs)),
         capacidad_total_litros |-> CalcularCapacidadTotal(cs),
         nivel_total_litros |-> CalcularNivelTotal(cs),
         porcentaje_lleno |->
             PorcentajeLleno(CalcularNivelTotal(cs), CalcularCapacidadTotal(cs))],
     llenados |->
        [total |-> ContarLlenados(ls),
         litros_suministrados |-> CalcularTotalLitros(ls),
         costo_total_bs |-> 100 * CalcularTotalCosto(ls),
         costo_promedio_litro_bs |-> CalcularCostoPromedioPorLitro(ls)],
     reportes |->
        [total |-> ContarReportes(rs),
         pendientes |-> ContarPorEstado(rs, "pendiente"),
         urgentes |-> ContarUrgentes(rs)],
     alertas |->
        Alertas(Cardinality(ObtenerVacias(cs)),
                Cardinality(ObtenerConNivelCritico(cs)),
                ContarUrgentes(rs),
                Cardinality(ObtenerConNivelBajo(cs)))]

----------------------------------------------------------------------------
(* SpecDashboard: ObtenerDashboard invoked, again and again, on stores     *)
(* holding whatever the other use cases and routes can have left.  No read *)
(* of the dashboard depends on the order of a collection, so one order per *)
(* multiset of documents is drawn.                                         *)

MaxCisternas == 2           \* tanks stored when the dashboard is asked for
CapacidadDashboard == 10    \* capacity, in litres, of each of these tanks

\* a stored tank of CapacidadDashboard litres
CisternaDashboard(tipo, estado, nivel_actual) ==
    CisternaDoc(NuevaEntidad(<<"u">>, tipo, CapacidadDashboard, nivel_actual,
                             0, estado, 0))

\* the kinds of stored tank: empty, under 20 %, under 40 %, full; operational
\* or not
ClasesCisterna ==
    << CisternaDashboard("comunitaria", "operativa", 0),
       CisternaDashboard("comunitaria", "operativa", 1),
       CisternaDashboard("escolar", "operativa", 3),
       CisternaDashboard("comunitaria", "operativa", CapacidadDashboard),
       CisternaDashboard("comunitaria", "dañada", 0),
       CisternaDashboard("centro_salud", "en_mantenimiento", 1) >>

UrgenciasDashboard == <<"media", "alta", "critica">>
EstadosDashboard == <<"pendiente", "en_revision", "en_proceso", "resuelto", "cerrado">>

\* a stored report of family 1: constructed by CrearReporte, then taken to
\* estado by cambiar_estado at instant 1
ReporteDashboard(urgencia, estado) ==
    [ReporteDoc(1, "fuga_agua", <<"x">>, urgencia, estado, 0)
        EXCEPT !.fecha_resolucion = IF estado \in Resueltos THEN 1 ELSE 0]

\* the kinds of stored report: every estado at each of three urgencies
ClasesReporte ==
    [k \in 1 .. Len(UrgenciasDashboard) * Len(EstadosDashboard) |->
        ReporteDashboard(
            UrgenciasDashboard[((k - 1) \div Len(EstadosDashboard)) + 1],
            EstadosDashboard[((k - 1) % Len(EstadosDashboard)) + 1])]

\* the collections of at most n documents of the kinds given
Colecciones(clases, n) ==
    UNION { { [i \in 1 .. m |-> clases[f[i]]] :
                f \in { g \in [1 .. m -> 1 .. Len(clases)] :
                           \A i \in 1 .. m - 1 : g[i] <= g[i + 1] } } :
            m \in 0 .. n }

FamiliasDashboard ==
    { <<>>,
      <<FamiliaDoc(<<"d">>, 4, <<"a">>, 5, FALSE, <<"z">>, <<>>)>>,
      <<FamiliaDoc(<<"d">>, 4, <<"a">>, 5, TRUE, <<"z">>, <<>>)>> }

\* the refill of 3 litres for Bs 2 that RegistrarLlenado records on tank 1
LlenadosDashboard(cs) ==
    IF Len(cs) = 0 \/ cs[1].estado # "operativa" \/ cs[1].nivel_actual < 3
    THEN { <<>> }
    ELSE { <<>>,
           <<[cisterna_id |-> 1, litros_suministrados |-> 3, costo |-> 2,
              proveedor |-> <<"p">>,
              nivel_anterior |-> cs[1].nivel_actual - 3,
              nivel_posterior |-> cs[1].nivel_actual]>> }

\* the repository calls of ejecutar; falla names one that raises, "" none
FallasDashboard == {"", "familia_repo.contar_familias",
                    "reporte_repo.contar_urgentes"}

Almacenes ==
    [familias |-> familias, cisternas |-> cisternas, llenados |-> llenados,
     reportes |-> reportes]

\* what the caller of ejecutar gets, and what the stores held when it was
\* called; previo is what the invocation before this one returned
Invocado(falla) ==
    [res |-> IF falla = "" THEN SinError ELSE PyMongoError(falla),
     dashboard |-> IF falla = ""
                   THEN Dashboard(familias, cisternas, llenados, reportes)
                   ELSE None,
     antes |-> Almacenes,
     previo |-> IF invD = None THEN None ELSE invD.dashboard]

otrosD == <<cisterna, ult_op, pcL, locL, pcF, locF, invR, reporte, reloj, invC>>

\* mutant of ObtenerDashboard: the pending reports read are marked as under
\* review
ObtenerDashboardMarcando(falla) ==
    /\ invD' = Invocado(falla)
    /\ reportes' = [i \in 1 .. Len(reportes) |->
                       IF reportes[i].estado = "pendiente"
                       THEN [reportes[i] EXCEPT !.estado = "en_revision"]
                       ELSE reportes[i]]
    /\ UNCHANGED <<familias, cisternas, llenados>>
    /\ UNCHANGED otrosD

\* lines 40-143: ejecutar, to its return or raise
ObtenerDashboard(falla) ==
    /\ invD' = Invocado(falla)
    /\ UNCHANGED <<familias, cisternas, llenados, reportes>>
    /\ UNCHANGED otrosD

InitDashboard ==
    /\ familias \in FamiliasDashboard
    /\ cisternas \in Colecciones(ClasesCisterna, MaxCisternas)
    /\ reportes \in IF familias = <<>> THEN { <<>> }
                    ELSE Colecciones(ClasesReporte, MaxReportes)
    /\ llenados \in LlenadosDashboard(cisternas)
    /\ invD = None
    /\ cisterna = None
    /\ ult_op = NoOp
    /\ pcL = [p \in Procs |-> "idle"]
    /\ locL = [p \in Procs |-> None]
    /\ pcF = [p \in Procs |-> "idle"]
    /\ locF = [p \in Procs |-> None]
    /\ invR = None
    /\ reporte = None
    /\ reloj = 0
    /\ invC = None

NextDashboard == \E falla \in FallasDashboard : ObtenerDashboard(falla)

SpecDashboard == InitDashboard /\ [][NextDashboard]_vars

----------------------------------------------------------------------------
(* Claims on ObtenerDashboard *)

\* ejecutar has returned a dashboard
DevueltoD == invD # None /\ invD.res = SinError

\* C13: in every dashboard the alerts present are in the order empty tanks
\* (tipo critico), tanks at critical level (urgente), urgent reports
\* (urgente), tanks at low level (advertencia), whatever their counts.
C13_OrdenAlertas ==
    DevueltoD =>
        LET al == invD.dashboard.alertas
            rango(a) == CASE a = AlertaVacias(a.cantidad) -> 1
                          [] a = AlertaNivelCritico(a.cantidad) -> 2
                          [] a = AlertaReportesUrgentes(a.cantidad) -> 3
                          [] a = AlertaNivelBajo(a.cantidad) -> 4
                          [] OTHER -> 0
        IN
        /\ \A i \in 1 .. Len(al) : rango(al[i]) # 0
        /\ \A i, j \in 1 .. Len(al) : i < j => rango(al[i]) < rango(al[j])

\* the four alerts at once, the last with a larger count than the first
C13_Witness ==
    /\ DevueltoD
    /\ Len(invD.dashboard.alertas) = 4
    /\ invD.dashboard.alertas[1].tipo = "critico"
    /\ invD.dashboard.alertas[4].tipo = "advertencia"
    /\ invD.dashboard.alertas[4].cantidad > invD.dashboard.alertas[1].cantidad

\* C14: in every dashboard each of the four alerts is present exactly when
\* its count in the same dashboard (cisternas.vacias, cisternas.nivel_critico,
\* reportes.urgentes, cisternas.nivel_bajo) is > 0, is present at most once
\* and carries that count; no alert has cantidad 0.
C14_AlertaSiCuenta ==
    DevueltoD =>
        LET d == invD.dashboard
            al == d.alertas
            veces(a) == Cardinality({i \in 1 .. Len(al) : al[i] = a})
            bien(a, n) == /\ veces(a) = (IF n > 0 THEN 1 ELSE 0)
                          /\ \A i \in 1 .. Len(al) :
                                 al[i].mensaje = a.mensaje => al[i] = a
        IN
        /\ bien(AlertaVacias(d.cisternas.vacias), d.cisternas.vacias)
        /\ bien(AlertaNivelCritico(d.cisternas.nivel_critico), d.cisternas.nivel_critico)
        /\ bien(AlertaReportesUrgentes(d.reportes.urgentes), d.reportes.urgentes)
        /\ bien(AlertaNivelBajo(d.cisternas.nivel_bajo), d.cisternas.nivel_bajo)
        /\ \A i \in 1 .. Len(al) :
               /\ al[i].cantidad > 0
               /\ al[i].mensaje \in {AlertaVacias(0).mensaje,
                                     AlertaNivelCritico(0).mensaje,
                                     AlertaReportesUrgentes(0).mensaje,
                                     AlertaNivelBajo(0).mensaje}

\* two empty tanks out of service: the alert on empty tanks alone, count 2
C14_Witness ==
    /\ DevueltoD
    /\ invD.dashboard.cisternas.vacias = 2
    /\ invD.dashboard.cisternas.nivel_critico = 0
    /\ invD.dashboard.cisternas.nivel_bajo = 0
    /\ invD.dashboard.reportes.urgentes = 0
    /\ invD.dashboard.alertas = <<AlertaVacias(2)>>

\* C15: on a system without families, tanks, refills and reports the
\* dashboard has every count and sum 0, porcentaje_lleno 0,
\* costo_promedio_litro_bs 0 and no alert.
C15_SistemaVacio ==
    (/\ DevueltoD
     /\ invD.antes.familias = <<>> /\ invD.antes.cisternas = <<>>
     /\ invD.antes.llenados = <<>> /\ invD.antes.reportes = <<>>) =>
        invD.dashboard =
            [familias |-> [total |-> 0, activas |-> 0, con_cisterna |-> 0,
                           sin_cisterna |-> 0],
             cisternas |-> [total |-> 0, operativas |-> 0, vacias |-> 0,
                            nivel_critico |-> 0, nivel_bajo |-> 0,
                            prioritarias |-> 0, capacidad_total_litros |-> 0,
                            nivel_total_litros |-> 0, porcentaje_lleno |-> 0],
             llenados |-> [total |-> 0, litros_suministrados |-> 0,
                           costo_total_bs |-> 0, costo_promedio_litro_bs |-> 0],
             reportes |-> [total |-> 0, pendientes |-> 0, urgentes |-> 0],
             alertas |-> <<>>]

\* the dashboard of the empty system has been returned
C15_Witness ==
    /\ DevueltoD
    /\ familias = <<>> /\ cisternas = <<>> /\ llenados = <<>> /\ reportes = <<>>
    /\ invD.antes = Almacenes
    /\ invD.dashboard.cisternas.porcentaje_lleno = 0
    /\ invD.dashboard.alertas = <<>>

C20_UrgentesSinResolver ==
    DevueltoD =>
        LET rs == invD.antes.reportes
            n == Cardinality({i \in 1 .. Len(rs) :
                                 /\ rs[i].urgencia \in {"alta", "critica"}
                                 /\ rs[i].estado \notin Resueltos})
            al == invD.dashboard.alertas
        IN
        /\ invD.dashboard.reportes.urgentes = n
        /\ n > 0 <=> \E i \in 1 .. Len(al) : al[i] = AlertaReportesUrgentes(n)

----------------------------------------------------------------------------
(* RegistrarCisterna.ejecutar: src/application/use_cases/registrar_cisterna.py *)
(* An absent familia_id (None, or the empty string) is 0.                   *)

\* mutant of FamiliaConCisterna: the flag is left as it was read
FamiliaSinMarcar(f) == f

\* line 77: familia.tiene_cisterna = True, on the entity read from the store
FamiliaConCisterna(f) == [f EXCEPT !.tiene_cisterna = TRUE]

TipoCisternaArgs == {"familiar", "comunitaria", "cilindro"}
UbicacionCisternaArgs == {<<" ">>, <<"u", " ">>}
CapacidadCisternaArgs == {0, MaxCap}
NivelCisternaArgs == {-1, 1, MaxCap + 1}
FamiliaIdOpcionalArgs == {0, 1, 2}

CisternaArgs ==
    [ubicacion : UbicacionCisternaArgs, tipo : TipoCisternaArgs,
     capacidad_total : CapacidadCisternaArgs, nivel_actual : NivelCisternaArgs,
     familia_id : FamiliaIdOpcionalArgs]

otrosRC == <<cisterna, ult_op, llenados, reportes, pcL, locL, pcF, locF, invR,
             reporte, reloj, invD>>

\* ejecutar(ubicacion, tipo, capacidad_total, nivel_actual, familia_id) is
\* called
CisternaIniciar(a) ==
    /\ invC = None
    /\ Len(cisternas) < MaxCisternas
    /\ invC' = [fase |-> "validar", args |-> a, familia |-> None,
                res |-> SinError, llamadas |-> <<>>,
                familias0 |-> familias, cisternas0 |-> cisternas]
    /\ UNCHANGED <<familias, cisternas>>
    /\ UNCHANGED otrosRC

\* the invocation ends raising r
CisternaFalla(r) ==
    /\ invC' = [invC EXCEPT !.fase = "terminado", !.res = r]
    /\ UNCHANGED <<familias, cisternas>>

\* the repository call named llamada is made and raises
CisternaFallaEn(llamada) ==
    /\ invC' = [invC EXCEPT !.fase = "terminado",
                            !.res = PyMongoError(llamada),
                            !.llamadas = Append(@, llamada)]
    /\ UNCHANGED <<familias, cisternas>>

\* the repository call named llamada returns; the invocation goes on at fase
CisternaSigue(llamada, fase, familia) ==
    invC' = [invC EXCEPT !.fase = fase, !.familia = familia,
                         !.llamadas = Append(@, llamada)]

\* mutant of EsFamiliarConFamilia: the tank's type is not looked at
EsFamiliarConFamiliaLaxa(tipo, familia_id) == familia_id # 0

\* line 69: tipo_cisterna == TipoCisterna.FAMILIAR and familia_id
EsFamiliarConFamilia(tipo, familia_id) == tipo = "familiar" /\ familia_id # 0

\* lines 60-77: check tipo; for a family tank with a familia_id, fetch the
\* family and set its flag in memory if it is not set
CisternaValidar ==
    /\ invC # None
    /\ invC.fase = "validar"
    /\ UNCHANGED otrosRC
    /\ LET a == invC.args IN
       IF a.tipo \notin TipoCisterna THEN CisternaFalla(ValueError("tipo_invalido"))
       ELSE IF ~EsFamiliarConFamilia(a.tipo, a.familia_id)
       THEN /\ invC' = [invC EXCEPT !.fase = "construir"]
            /\ UNCHANGED <<familias, cisternas>>
       ELSE \/ CisternaFallaEn("familia_repo.obtener_por_id")
            \/ LET doc == FindOne(familias, a.familia_id)
                   e == IF doc = None THEN "familia_no_encontrada"
                        ELSE FamiliaPostInit(doc.direccion, doc.num_personas,
                                 doc.capacidad_almacenamiento, doc.contacto)
               IN
               /\ UNCHANGED <<familias, cisternas>>
               /\ IF e # ""
                  THEN invC' = [invC EXCEPT
                           !.fase = "terminado", !.res = ValueError(e),
                           !.llamadas = Append(@, "familia_repo.obtener_por_id")]
                  ELSE IF doc.tiene_cisterna
                  THEN CisternaSigue("familia_repo.obtener_por_id",
                                     "construir", None)
                  ELSE CisternaSigue("familia_repo.obtener_por_id",
                                     "actualizar_familia",
                                     FamiliaConCisterna(doc))

\* line 78: familia_repo.actualizar(familia)
CisternaActualizarFamilia ==
    /\ invC # None
    /\ invC.fase = "actualizar_familia"
    /\ UNCHANGED otrosRC
    /\ \/ CisternaFallaEn("familia_repo.actualizar")
       \/ /\ familias' = UpdateOne(familias, invC.args.familia_id, invC.familia)
          /\ CisternaSigue("familia_repo.actualizar", "construir", invC.familia)
          /\ UNCHANGED cisternas

\* lines 80-95: construct the Cisterna, cisterna_repo.guardar(cisterna); return
CisternaConstruir ==
    /\ invC # None
    /\ invC.fase = "construir"
    /\ UNCHANGED otrosRC
    /\ LET a == invC.args
           e == CisternaPostInit(a.ubicacion, a.capacidad_total, a.nivel_actual)
       IN
       IF e # "" THEN CisternaFalla(ValueError(e))
       ELSE \/ CisternaFallaEn("cisterna_repo.guardar")
            \/ /\ cisternas' = InsertOne(cisternas,
                       CisternaDoc(NuevaEntidad(a.ubicacion, a.tipo,
                           a.capacidad_total, a.nivel_actual, a.familia_id,
                           "operativa", 0)))
               /\ CisternaSigue("cisterna_repo.guardar", "terminado",
                                invC.familia)
               /\ UNCHANGED familias

\* the caller has the tank or the exception
CisternaRetornar ==
    /\ invC # None
    /\ invC.fase = "terminado"
    /\ invC' = None
    /\ UNCHANGED <<familias, cisternas>>
    /\ UNCHANGED otrosRC

\* one family is registered, with or without a tank of its own
InitRegistrarCisterna ==
    /\ \E tc \in BOOLEAN :
           familias = <<FamiliaDoc(<<"d">>, 4, <<"a">>, 5, tc, <<"z">>, <<>>)>>
    /\ cisternas = <<>>
    /\ invC = None
    /\ cisterna = None
    /\ ult_op = NoOp
    /\ llenados = <<>>
    /\ reportes = <<>>
    /\ pcL = [p \in Procs |-> "idle"]
    /\ locL = [p \in Procs |-> None]
    /\ pcF = [p \in Procs |-> "idle"]
    /\ locF = [p \in Procs |-> None]
    /\ invR = None
    /\ reporte = None
    /\ reloj = 0
    /\ invD = None

NextRegistrarCisterna ==
    \/ \E a \in CisternaArgs : CisternaIniciar(a)
    \/ CisternaValidar
    \/ CisternaActualizarFamilia
    \/ CisternaConstruir
    \/ CisternaRetornar

SpecRegistrarCisterna == InitRegistrarCisterna /\ [][NextRegistrarCisterna]_vars

----------------------------------------------------------------------------
(* Claims on RegistrarCisterna *)

TerminadoC == invC # None /\ invC.fase = "terminado"

\* C17: after a successful RegistrarCisterna with tipo familiar and the
\* familia_id of a stored family, that stored family has tiene_cisterna true
\* (set and stored if it was false, nothing else of it changed) and the tank
\* stored references the family and is operativa.
C17_FamiliaMarcada ==
    (/\ TerminadoC
     /\ invC.res = SinError
     /\ invC.args.tipo = "familiar"
     /\ FindOne(invC.familias0, invC.args.familia_id) # None) =>
        LET h == invC.args.familia_id IN
        /\ familias[h].tiene_cisterna
        /\ familias = [invC.familias0 EXCEPT ![h].tiene_cisterna = TRUE]
        /\ Len(cisternas) = Len(invC.cisternas0) + 1
        /\ cisternas[Len(cisternas)].familia_id = h
        /\ cisternas[Len(cisternas)].tipo = "familiar"
        /\ cisternas[Len(cisternas)].estado = "operativa"

\* a family tank was registered for a family stored without the flag
C17_Witness ==
    /\ TerminadoC
    /\ invC.res = SinError
    /\ invC.args.tipo = "familiar"
    /\ invC.args.familia_id = 1
    /\ ~invC.familias0[1].tiene_cisterna
    /\ familias[1].tiene_cisterna
    /\ cisternas[Len(cisternas)].familia_id = 1

\* C18 as stated: an invocation that fails with an error that is not of the
\* store (tipo unknown, family absent, ubicacion empty, capacidad_total <= 0,
\* nivel_actual < 0 or > capacidad_total) leaves the cisternas and familias
\* collections as they were; the flag of the family is not set when the
\* construction of the tank is rejected.
C18_FalloSinCambio ==
    (TerminadoC /\ invC.res.exc = "ValueError") =>
        /\ cisternas = invC.cisternas0
        /\ familias = invC.familias0

----------------------------------------------------------------------------
(* Claims on the validation of Familia, through RegistrarFamilia (SpecFamilia) *)

\* C19 as stated: the construction of a Familia, and so RegistrarFamilia on
\* a contact not yet stored, fails with a ValueError and stores nothing
\* whenever direccion, contacto or zona is empty once trimmed, num_personas
\* <= 0 or capacidad_almacenamiento <= 0, and succeeds otherwise.
C19_ValidacionFamilia ==
    \A p \in Procs :
        (/\ TerminadoF(p)
         /\ ~BuscarPorContacto(locF[p].familias0, locF[p].args.contacto)
         /\ locF[p].res.exc \notin {"PyMongoError", "DuplicateKeyError"}) =>
            LET a == locF[p].args
                invalida == \/ Vacio(a.direccion) \/ Vacio(a.contacto)
                            \/ Vacio(a.zona)
                            \/ a.num_personas <= 0
                            \/ a.capacidad_almacenamiento <= 0
            IN
            /\ invalida => /\ locF[p].res.exc = "ValueError"
                           /\ familias = locF[p].familias0
            /\ ~invalida => /\ locF[p].res = SinError
                            /\ Len(familias) = Len(locF[p].familias0) + 1

----------------------------------------------------------------------------
(* Llenado records over time (SpecLlenado).  llenado_repo.guardar at        *)
(* registrar_llenado.py:89 is the only write to 'llenados' in the code:     *)
(* the repository has no update and no delete.                              *)

\* the record the invocation of p built is the one stored after llenados0
UnRegistroMasL(p) ==
    /\ Len(llenados) = Len(locL[p].llenados0) + 1
    /\ SubSeq(llenados, 1, Len(locL[p].llenados0)) = locL[p].llenados0
    /\ llenados[Len(llenados)] = locL[p].llenado

\* a step leaves 'llenados' alone or adds one record after those stored
PasoSoloAgrega ==
    \/ llenados' = llenados
    \/ /\ Len(llenados') = Len(llenados) + 1
       /\ SubSeq(llenados', 1, Len(llenados)) = llenados

\* C21 as stated: a successful RegistrarLlenado has added exactly one record
\* and every failed one has added none.
C21_FalloNoAgrega ==
    \A p \in Procs :
        TerminadoL(p) =>
            /\ locL[p].res = SinError => UnRegistroMasL(p)
            /\ locL[p].res # SinError => llenados = locL[p].llenados0

\* C21 amended: every step of a RegistrarLlenado leaves the stored records
\* as they are or adds one after them, so the records only grow and each
\* keeps its field values; a successful invocation has added exactly one
\* record, one that failed before llenado_repo.guardar returned has added
\* none, and one that failed at cisterna_repo.actualizar has added exactly
\* one, which stays.
C21_SoloAgrega ==
    /\ [][PasoSoloAgrega]_vars
    /\ [](\A p \in Procs :
            TerminadoL(p) =>
                /\ locL[p].res = SinError => UnRegistroMasL(p)
                /\ locL[p].res = PyMongoError("cisterna_repo.actualizar")
                       => UnRegistroMasL(p)
                /\ (/\ locL[p].res # SinError
                    /\ locL[p].res # PyMongoError("cisterna_repo.actualizar"))
                       => llenados = locL[p].llenados0)

\* a second refill succeeded and the first record is stored as it was
C21_Witness ==
    \E p \in Procs :
        /\ TerminadoL(p)
        /\ locL[p].res = SinError
        /\ Len(locL[p].llenados0) = 1
        /\ Len(llenados) = 2
        /\ llenados[1] = locL[p].llenados0[1]

----------------------------------------------------------------------------
(* Familia.consumo_promedio_diario (SpecFamiliaConsumo): RegistrarFamilia   *)
(* one invocation at a time, the arguments differing in the number of      *)
(* persons, the consumption figure and the contact.                        *)

NumPersonasConsumoArgs == {0, 1, 4}
ConsumoExplicitoArgs == {<<>>, <<0>>, <<7>>, <<200>>}

FamiliaArgsConsumo ==
    [direccion : {<<"d", " ">>}, num_personas : NumPersonasConsumoArgs,
     contacto : {<<"a">>, <<"b">>}, capacidad_almacenamiento : {5},
     tiene_cisterna : {FALSE}, zona : {<<" ", "z">>},
     consumo : ConsumoExplicitoArgs]

NextFamiliaConsumo ==
    \/ \E a \in FamiliaArgsConsumo : FamiliaIniciar(1, a)
    \/ FamiliaBuscar(1)
    \/ FamiliaGuardar(1)
    \/ FamiliaRetornar(1)

SpecFamiliaConsumo == InitFamilia /\ [][NextFamiliaConsumo]_vars

\* the consumption figure the claim gives a family registered with args a
ConsumoEsperado(a) ==
    IF a.consumo = <<>> THEN a.num_personas * 50 ELSE a.consumo[1]

\* C22: a Familia constructed without a consumption figure gets
\* consumo_promedio_diario = num_personas x 50 (4 persons give 200); one
\* constructed with an explicit figure, 0 included, keeps exactly that
\* figure; the figure is stored as constructed.
C22_ConsumoPorDefecto ==
    \A p \in Procs :
        /\ (pcF[p] # "idle" /\ locF[p].familia # None) =>
               /\ locF[p].familia.consumo_promedio_diario
                      = ConsumoEsperado(locF[p].args)
               /\ (locF[p].args.consumo = <<>> /\ locF[p].args.num_personas = 4)
                      => locF[p].familia.consumo_promedio_diario = 200
        /\ (TerminadoF(p) /\ locF[p].res = SinError) =>
               familias[Len(familias)].consumo_promedio_diario
                   = ConsumoEsperado(locF[p].args)

\* a family of 4 registered without a figure is stored with 200
C22_Witness ==
    \E p \in Procs :
        /\ TerminadoF(p)
        /\ locF[p].res = SinError
        /\ locF[p].args.consumo = <<>>
        /\ locF[p].args.num_personas = 4
        /\ familias[Len(familias)].consumo_promedio_diario = 200

\* a family registered with the explicit figure 0 is stored with 0
C22_WitnessExplicito ==
    \E p \in Procs :
        /\ TerminadoF(p)
        /\ locF[p].res = SinError
        /\ locF[p].args.consumo = <<0>>
        /\ familias[Len(familias)].consumo_promedio_diario = 0

----------------------------------------------------------------------------
(* Claims on the state and urgency of a Reporte (SpecReporteEntidad) *)

\* C23: cambiar_estado(s) with s one of the five EstadoReporte succeeds and
\* leaves estado = s whatever the estado was, out of resuelto or cerrado
\* back to pendiente included: no order between the states is enforced.
C23_CualquierTransicion ==
    (ult_op.op = "cambiar_estado" /\ ult_op.arg \in EstadoReporte) =>
        /\ ult_op.error = ""
        /\ reporte.estado = ult_op.arg

\* a resolved report was put back to pendiente
C23_Witness ==
    /\ ult_op.op = "cambiar_estado"
    /\ ult_op.antes.estado = "resuelto"
    /\ ult_op.arg = "pendiente"
    /\ ult_op.error = ""
    /\ reporte.estado = "pendiente"

\* a closed report was put back to pendiente
C23_WitnessCerrado ==
    /\ ult_op.op = "cambiar_estado"
    /\ ult_op.antes.estado = "cerrado"
    /\ ult_op.arg = "pendiente"
    /\ reporte.estado = "pendiente"

\* a step sets the resolution date only when it enters resuelto or cerrado
FechaSoloAlResolver ==
    (reporte.fecha_resolucion = 0 /\ reporte'.fecha_resolucion # 0)
        => reporte'.estado \in Resueltos

\* C28: a report constructed by CrearReporte has no resolution date; after
\* any sequence of cambiar_estado, resolver and aumentar_urgencia calls,
\* estado in {resuelto, cerrado} implies the date is set, and the date is
\* set only by a call that enters resuelto or cerrado, so it is unset as
\* long as the report has never been in one of the two.
C28_ResueltoConFecha ==
    /\ reporte.fecha_resolucion = 0
    /\ [](reporte.estado \in Resueltos => reporte.fecha_resolucion # 0)
    /\ [][FechaSoloAlResolver]_vars

\* a report closed by cambiar_estado, never resolved before, has its date
C28_Witness ==
    /\ ult_op.op = "cambiar_estado"
    /\ ult_op.arg = "cerrado"
    /\ ult_op.antes.fecha_resolucion = 0
    /\ reporte.estado = "cerrado"
    /\ reporte.fecha_resolucion = ult_op.ahora

\* the position of an urgency on the scale baja < media < alta < critica
NivelUrgencia(u) ==
    CASE u = "baja" -> 1 [] u = "media" -> 2 [] u = "alta" -> 3
      [] u = "critica" -> 4

\* C30: aumentar_urgencia never fails, raises the urgency by exactly one
\* step along baja, media, alta, critica, leaves critica as it is, and
\* leaves estado, fecha_resolucion and observaciones_resolucion unchanged.
C30_UnPasoMas ==
    ult_op.op = "aumentar_urgencia" =>
        /\ ult_op.error = ""
        /\ NivelUrgencia(reporte.urgencia) =
               IF NivelUrgencia(ult_op.antes.urgencia) < 4
               THEN NivelUrgencia(ult_op.antes.urgencia) + 1 ELSE 4
        /\ NivelUrgencia(reporte.urgencia) >= NivelUrgencia(ult_op.antes.urgencia)
        /\ reporte.estado = ult_op.antes.estado
        /\ reporte.fecha_resolucion = ult_op.antes.fecha_resolucion
        /\ reporte.observaciones_resolucion
               = ult_op.antes.observaciones_resolucion

\* a resolved report with notes, already critica, was escalated
C30_Witness ==
    /\ ult_op.op = "aumentar_urgencia"
    /\ ult_op.antes.urgencia = "critica"
    /\ reporte.urgencia = "critica"
    /\ reporte.estado = "resuelto"
    /\ reporte.fecha_resolucion # 0
    /\ reporte.observaciones_resolucion # <<>>

\* a report at alta was escalated to critica
C30_WitnessPaso ==
    /\ ult_op.op = "aumentar_urgencia"
    /\ ult_op.antes.urgencia = "alta"
    /\ reporte.urgencia = "critica"

----------------------------------------------------------------------------
(* Claims on the family lookup of RegistrarCisterna (SpecRegistrarCisterna) *)

\* the invocation in flight has made the repository call named llamada
LlamoC(llamada) ==
    \E i \in 1 .. Len(invC.llamadas) : invC.llamadas[i] = llamada

\* the family the invocation names was stored with its flag set
FamiliaYaMarcadaC ==
    /\ FindOne(invC.familias0, invC.args.familia_id) # None
    /\ FindOne(invC.familias0, invC.args.familia_id).tiene_cisterna

\* C24 as stated: when tipo is not familiar, when no familia_id is given, or
\* when the family named already has tiene_cisterna true, the invocation
\* makes no family lookup and no family write and leaves 'familias' as it
\* was.
C24_SinBusqueda ==
    (/\ invC # None
     /\ \/ invC.args.tipo # "familiar"
        \/ invC.args.familia_id = 0
        \/ FamiliaYaMarcadaC) =>
        /\ ~LlamoC("familia_repo.obtener_por_id")
        /\ ~LlamoC("familia_repo.actualizar")
        /\ familias = invC.familias0

\* C24 amended: when tipo is not familiar or no familia_id is given, the
\* invocation makes no family lookup and no family write; when tipo is
\* familiar and the family named already has tiene_cisterna true, it looks
\* the family up (it has to, to read the flag) and makes no family write;
\* in the three cases 'familias' is left as it was.
C24_SinEscritura ==
    invC # None =>
        /\ (invC.args.tipo # "familiar" \/ invC.args.familia_id = 0) =>
               /\ ~LlamoC("familia_repo.obtener_por_id")
               /\ ~LlamoC("familia_repo.actualizar")
               /\ familias = invC.familias0
        /\ (invC.args.tipo = "familiar" /\ FamiliaYaMarcadaC) =>
               /\ invC.fase # "validar" => LlamoC("familia_repo.obtener_por_id")
               /\ ~LlamoC("familia_repo.actualizar")
               /\ familias = invC.familias0

\* a family tank was registered for a family that had its flag set: the
\* family was looked up and not written
C24_Witness ==
    /\ TerminadoC
    /\ invC.res = SinError
    /\ invC.args.tipo = "familiar"
    /\ FamiliaYaMarcadaC
    /\ invC.llamadas = <<"familia_repo.obtener_por_id", "cisterna_repo.guardar">>
    /\ familias = invC.familias0

\* a communal tank was registered with a familia_id: no lookup was made
C24_WitnessNoFamiliar ==
    /\ TerminadoC
    /\ invC.res = SinError
    /\ invC.args.tipo = "comunitaria"
    /\ invC.args.familia_id = 2
    /\ invC.llamadas = <<"cisterna_repo.guardar">>

----------------------------------------------------------------------------
(* The levels of the stored Llenado records (SpecLlenado) *)

C27_WitnessTope ==
    \E i \in 1 .. Len(llenados) :
        /\ llenados[i].nivel_posterior > llenados[i].nivel_anterior
        /\ llenados[i].nivel_posterior - llenados[i].nivel_anterior
               < llenados[i].litros_suministrados

----------------------------------------------------------------------------
(* RegistrarLlenado under concurrent invocations (SpecLlenadoConc): each    *)
(* request of the hosting service runs ejecutar on its own; the repository *)
(* calls of two invocations interleave in any order.  The invocations      *)
(* refill tank 1 with valid cost and provider and differ in the liters.    *)

LitrosConcArgs == 1 .. MaxCap

LlenadoPasoConc(p) ==
    \/ \E x \in LitrosConcArgs : LlenadoIniciar(p, 1, x, 2, <<"p">>)
    \/ LlenadoObtener(p)
    \/ LlenadoGuardar(p)
    \/ LlenadoActualizar(p)
    \/ LlenadoRetornar(p)

NextLlenadoConc == \E p \in Procs : LlenadoPasoConc(p)

SpecLlenadoConc == InitLlenado /\ [][NextLlenadoConc]_vars

\* the liters the invocation of p contributed: those of a successful refill
LitrosLogrados(p) == IF locL[p].res = SinError THEN locL[p].litros ELSE 0

\* C25 as stated: two RegistrarLlenado invocations on one tank, both started
\* on the store with level L0 and no record and run in any interleaving,
\* leave, once both have completed, the stored level
\* min(L0 + liters of the successful ones, capacidad_total).
C25_SinPerdida ==
    (/\ \A p \in Procs : TerminadoL(p) /\ locL[p].llenados0 = <<>>) =>
        LET L0 == locL[1].cisternas0[1].nivel_actual
            C == locL[1].cisternas0[1].capacidad_total
            suma == L0 + LitrosLogrados(1) + LitrosLogrados(2)
        IN
        cisternas[1].nivel_actual = IF suma <= C THEN suma ELSE C

----------------------------------------------------------------------------
(* The tank counts of a dashboard (SpecDashboard) *)

\* C29 as stated: in every dashboard vacias <= nivel_critico <= nivel_bajo
\* <= total, so an alert for empty tanks comes with one for tanks at
\* critical level, and that one with one for tanks at low level.
C29_VaciasCriticasBajas ==
    DevueltoD =>
        LET c == invD.dashboard.cisternas
            al == invD.dashboard.alertas
            hay(a) == \E i \in 1 .. Len(al) : al[i] = a
        IN
        /\ c.vacias <= c.nivel_critico
        /\ c.nivel_critico <= c.nivel_bajo
        /\ c.nivel_bajo <= c.total
        /\ hay(AlertaVacias(c.vacias)) => hay(AlertaNivelCritico(c.nivel_critico))
        /\ hay(AlertaNivelCritico(c.nivel_critico))
               => hay(AlertaNivelBajo(c.nivel_bajo))

\* the part of C29 the code keeps: nivel_critico <= nivel_bajo <= total,
\* and vacias <= total
C29_CriticasBajas ==
    DevueltoD =>
        LET c == invD.dashboard.cisternas IN
        /\ c.nivel_critico <= c.nivel_bajo
        /\ c.nivel_bajo <= c.total
        /\ c.vacias <= c.total

----------------------------------------------------------------------------
(* ObtenerDashboard while the stores are written (SpecDashboardConc).  Each *)
(* repository call of ejecutar is a step of its own: nothing ties the      *)
(* calls of one invocation to one snapshot of the store, so the steps of a *)
(* RegistrarCisterna and of a RegistrarLlenado running in other requests   *)
(* fall between them in any order.  One dashboard is asked for; meanwhile  *)
(* a tank is registered for family 1 and tank 1 is refilled once.          *)

\* the repository calls of ejecutar, in the order of lines 53-80;
\* calcular_costo_promedio_por_litro runs the two aggregates itself
LlamadasDashboard ==
    << "familia_repo.contar_familias", "familia_repo.obtener_activas",
       "familia_repo.obtener_con_cisterna", "familia_repo.obtener_sin_cisterna",
       "cisterna_repo.contar_cisternas", "cisterna_repo.obtener_operativas",
       "cisterna_repo.obtener_vacias", "cisterna_repo.obtener_con_nivel_critico",
       "cisterna_repo.obtener_con_nivel_bajo", "cisterna_repo.obtener_prioritarias",
       "cisterna_repo.calcular_capacidad_total", "cisterna_repo.calcular_nivel_total",
       "llenado_repo.contar_llenados", "llenado_repo.calcular_total_litros",
       "llenado_repo.calcular_total_costo",
       "llenado_repo.calcular_costo_promedio_por_litro/calcular_total_costo",
       "llenado_repo.calcular_costo_promedio_por_litro/calcular_total_litros",
       "reporte_repo.contar_reportes", "reporte_repo.contar_por_estado",
       "reporte_repo.contar_urgentes" >>

\* what the k-th call returns (for a list, its length) on the stores as they
\* are when it runs
LecturaD(k) ==
    CASE k = 1 -> ContarFamilias(familias)
      [] k = 2 -> Cardinality(ObtenerActivas(familias))
      [] k = 3 -> Cardinality(ObtenerConCisterna(familias))
      [] k = 4 -> Cardinality(ObtenerSinCisterna(familias))
      [] k = 5 -> ContarCisternas(cisternas)
      [] k = 6 -> Cardinality(ObtenerOperativas(cisternas))
      [] k = 7 -> Cardinality(ObtenerVacias(cisternas))
      [] k = 8 -> Cardinality(ObtenerConNivelCritico(cisternas))
      [] k = 9 -> Cardinality(ObtenerConNivelBajo(cisternas))
      [] k = 10 -> Cardinality(ObtenerPrioritarias(cisternas))
      [] k = 11 -> CalcularCapacidadTotal(cisternas)
      [] k = 12 -> CalcularNivelTotal(cisternas)
      [] k = 13 -> ContarLlenados(llenados)
      [] k = 14 -> CalcularTotalLitros(llenados)
      [] k = 15 -> CalcularTotalCosto(llenados)
      [] k = 16 -> CalcularTotalCosto(llenados)
      [] k = 17 -> CalcularTotalLitros(llenados)
      [] k = 18 -> ContarReportes(reportes)
      [] k = 19 -> ContarPorEstado(reportes, "pendiente")
      [] k = 20 -> ContarUrgentes(reportes)

\* lines 68-143: the dictionary returned, from the values l the calls gave
DashboardLeido(l) ==
    [familias |->
        [total |-> l[1], activas |-> l[2], con_cisterna |-> l[3],
         sin_cisterna |-> l[4]],
     cisternas |->
        [total |-> l[5], operativas |-> l[6], vacias |-> l[7],
         nivel_critico |-> l[8], nivel_bajo |-> l[9], prioritarias |-> l[10],
         capacidad_total_litros |-> l[11],
         nivel_total_litros |-> l[12],
         porcentaje_lleno |-> PorcentajeLleno(l[12], l[11])],
     llenados |->
        [total |-> l[13],
         litros_suministrados |-> l[14],
         costo_total_bs |-> 100 * l[15],
         costo_promedio_litro_bs |->
             IF l[17] > 0 THEN Redondear2(l[16], l[17]) ELSE 0],
     reportes |->
        [total |-> l[18], pendientes |-> l[19], urgentes |-> l[20]],
     alertas |-> Alertas(l[7], l[8], l[20], l[9])]

\* ejecutar() is called
DashboardIniciar ==
    /\ invD = None
    /\ invD' = [fase |-> "leyendo", leido |-> <<>>, res |-> SinError,
                dashboard |-> None, cisternas0 |-> cisternas]
    /\ UNCHANGED <<familias, cisternas, llenados, reportes>>
    /\ UNCHANGED otrosD

\* the next repository call runs: it returns its value, or raises
DashboardLeer ==
    /\ invD # None
    /\ invD.fase = "leyendo"
    /\ Len(invD.leido) < Len(LlamadasDashboard)
    /\ LET k == Len(invD.leido) + 1 IN
       \/ invD' = [invD EXCEPT !.leido = Append(@, LecturaD(k))]
       \/ invD' = [invD EXCEPT !.fase = "terminado",
                               !.res = PyMongoError(LlamadasDashboard[k])]
    /\ UNCHANGED <<familias, cisternas, llenados, reportes>>
    /\ UNCHANGED otrosD

\* lines 82-143: the alerts and the dictionary, returned
DashboardArmar ==
    /\ invD # None
    /\ invD.fase = "leyendo"
    /\ Len(invD.leido) = Len(LlamadasDashboard)
    /\ invD' = [invD EXCEPT !.fase = "terminado",
                            !.dashboard = DashboardLeido(invD.leido)]
    /\ UNCHANGED <<familias, cisternas, llenados, reportes>>
    /\ UNCHANGED otrosD

\* the tank registered meanwhile: one of family 1, holding 1 litre
CisternaArgsConc ==
    {a \in CisternaArgs :
        /\ a.ubicacion = <<"u", " ">> /\ a.capacidad_total = MaxCap
        /\ a.nivel_actual = 1
        /\ a.tipo = "familiar" /\ a.familia_id = 1}

\* the refill recorded meanwhile: 1 litre into tank 1, once
LlenadoPasoUno ==
    \/ llenados = <<>> /\ LlenadoIniciar(1, 1, 1, 2, <<"p">>)
    \/ LlenadoObtener(1)
    \/ LlenadoGuardar(1)
    \/ LlenadoActualizar(1)
    \/ LlenadoRetornar(1)

\* one tank of MaxCap litres and one family are stored
InitDashboardConc ==
    /\ familias = <<FamiliaDoc(<<"d">>, 4, <<"a">>, 5, FALSE, <<"z">>, <<>>)>>
    /\ \E n \in {0, MaxCap} :
           cisternas = <<CisternaDoc(NuevaEntidad(<<"u">>, "comunitaria", MaxCap,
                                                  n, 0, "operativa", 0))>>
    /\ llenados = <<>>
    /\ reportes = <<>>
    /\ pcL = [p \in Procs |-> "idle"]
    /\ locL = [p \in Procs |-> None]
    /\ pcF = [p \in Procs |-> "idle"]
    /\ locF = [p \in Procs |-> None]
    /\ cisterna = None
    /\ ult_op = NoOp
    /\ invR = None
    /\ InitSinUso

NextDashboardConc ==
    \/ DashboardIniciar
    \/ DashboardLeer
    \/ DashboardArmar
    \/ \E a \in CisternaArgsConc : CisternaIniciar(a)
    \/ CisternaValidar
    \/ CisternaActualizarFamilia
    \/ CisternaConstruir
    \/ CisternaRetornar
    \/ LlenadoPasoUno

SpecDashboardConc == InitDashboardConc /\ [][NextDashboardConc]_vars

\* ejecutar has returned a dashboard
DevueltoDConc == invD # None /\ invD.fase = "terminado" /\ invD.res = SinError

\* C26 as stated: every dashboard returned has nivel_total_litros <=
\* capacidad_total_litros and 0 <= porcentaje_lleno <= 100 (10000
\* hundredths), also when a RegistrarCisterna or a RegistrarLlenado writes
\* between two repository calls of ObtenerDashboard.
C26_NivelBajoCapacidad ==
    DevueltoDConc =>
        LET c == invD.dashboard.cisternas IN
        /\ c.nivel_total_litros <= c.capacidad_total_litros
        /\ 0 <= c.porcentaje_lleno
        /\ c.porcentaje_lleno <= 100 * 100

\* the part of C26 the code keeps: the same, for the dashboards built while
\* no tank was stored (refills may have been)
C26_SinRegistroDeCisterna ==
    (DevueltoDConc /\ Len(cisternas) = Len(invD.cisternas0)) =>
        LET c == invD.dashboard.cisternas IN
        /\ c.nivel_total_litros <= c.capacidad_total_litros
        /\ 0 <= c.porcentaje_lleno
        /\ c.porcentaje_lleno <= 100 * 100

====
